---------------------------- MODULE Spec2Model ----------------------------
(***************************************************************************)
(* Bulk payroll disbursement: the queue worker (processBulkPayroll), the   *)
(* Monnify webhook receiver, the reconciliation sweep and the aggregate    *)
(* recompute (updatePayrollStats) over the payrolls / payroll_items tables,*)
(* payroll creation over the employees table, and the Monnify client.      *)
(***************************************************************************)
EXTENDS Integers, Sequences, FiniteSets, TLC

(* ------------------------------ bounds -------------------------------- *)
NumItems == 2
MaxStamps == 2
MaxJobs == 2
MaxAccepted == 2
MaxLen == 3
MaxSalary == 2
MaxTransfers == 2
MaxAge == 25
MaxId == 12

(* --------------------------- program values --------------------------- *)
PENDING == "pending"
PROCESSING == "processing"
COMPLETED == "completed"
FAILED == "failed"
PARTIALLY_COMPLETED == "partially_completed"

ItemStatuses == {PENDING, PROCESSING, COMPLETED, FAILED}
PayrollStatus == {PENDING, PROCESSING, COMPLETED, FAILED, PARTIALLY_COMPLETED}

\* transaction_reference: 0 stands for every falsy value (NULL, undefined, '')
NoRef == 0
\* error_message: "" stands for every falsy value (NULL, undefined, '')
NoError == ""
\* processed_at: 0 is NULL; otherwise the number of times the row's processed_at was
\* set to NOW(), so that every new NOW() is a value the column did not hold before
NoTime == 0
\* an optional numeric argument that was not passed
Undefined == -1
\* Number(s) of a string that is not a number; as a part of a reference, any
\* non-empty string that Number() takes to NaN ('abc', 'undefined', a missing part)
NaN == -2
\* as a part of a reference: the empty string
Empty == -3
\* defaultJobOptions.attempts
Attempts == 3
\* authenticate: tokenExpiry is Date.now() + 23 hours
TokenMarginHours == 23
\* the hours an access token of Monnify lasts
TokenLifeHours == 24

ThePayroll == 1
PayrollIds == {ThePayroll}
Items == 1..NumItems
\* an item id that is in no row of payroll_items
UnknownItem == NumItems + 1

\* the transactionReference Monnify gives the transfer of item i
GatewayRef(i) == i
\* a transactionReference Monnify gave to none of the items
ForeignRef == NumItems + 1

\* `PAYROLL_${payrollId}_${item.id}`
Reference(payrollId, itemId) == <<"PAYROLL", payrollId, itemId>>

Truthy(ref) == ref # NoRef
TruthyStr(s) == s # NoError

(* ------------------------------ the store ----------------------------- *)
\* employees.id, and employees.salary
Employees == 1..NumItems
Salaries == 1..MaxSalary
\* the salary EmployeeModel.create is called with
StartingSalary == 1

\* the rows PayrollModel.create inserts: a payroll for NumItems employees at the
\* starting salary, and the item of the employee with id 1
NewItem == [status |-> PENDING, transaction_reference |-> NoRef,
            error_message |-> NoError, processed_at |-> NoTime,
            employee_id |-> 1, amount |-> StartingSalary]
NewPayroll == [status |-> PENDING, processed_count |-> 0, failed_count |-> 0,
               processed_at |-> NoTime, total_employees |-> NumItems,
               total_amount |-> NumItems * StartingSalary]

\* A database: the two tables.
MkDB(its, prs) == [items |-> its, payrolls |-> prs]

ItemStamped(status) == status \in {COMPLETED, FAILED}

\* PayrollItemModel.updateStatus: UPDATE payroll_items SET ... WHERE id = $1
PayrollItemModel_updateStatus(db, id, status, transactionReference, errorMessage) ==
  IF id \notin DOMAIN db.items THEN db
  ELSE LET old == db.items[id]
           row == [old EXCEPT
                     !.status = status,
                     !.transaction_reference =
                       IF Truthy(transactionReference) THEN transactionReference
                       ELSE old.transaction_reference,
                     !.error_message =
                       IF TruthyStr(errorMessage) THEN errorMessage
                       ELSE old.error_message,
                     !.processed_at =
                       IF ItemStamped(status) THEN old.processed_at + 1
                       ELSE old.processed_at]
       IN  [db EXCEPT !.items = [db.items EXCEPT ![id] = row]]

PayrollStamped(status) == status \in {COMPLETED, PARTIALLY_COMPLETED}

\* PayrollModel.updateStatus: UPDATE payrolls SET ... WHERE id = $1
PayrollModel_updateStatus(db, id, status, processedCount, failedCount) ==
  IF id \notin DOMAIN db.payrolls THEN db
  ELSE LET old == db.payrolls[id]
           row == [old EXCEPT
                     !.status = status,
                     !.processed_count =
                       IF processedCount # Undefined THEN processedCount ELSE @,
                     !.failed_count =
                       IF failedCount # Undefined THEN failedCount ELSE @,
                     !.processed_at = IF PayrollStamped(status) THEN @ + 1 ELSE @]
       IN  [db EXCEPT !.payrolls = [db.payrolls EXCEPT ![id] = row]]

\* PayrollItemModel.findByPayrollId: the rows of the payroll, by id
\* (every item of the model belongs to ThePayroll)
PayrollItemModel_findByPayrollId(db, payrollId) ==
  IF payrollId = ThePayroll THEN db.items
  ELSE [i \in {} |-> NewItem]

(* ------------------------- aggregate recompute ------------------------ *)
CountStatus(rows, s) == Cardinality({i \in DOMAIN rows : rows[i].status = s})

\* updatePayrollStats of the queue worker: what it computes from the rows read
WorkerStats(rows) ==
  LET completed == CountStatus(rows, COMPLETED)
      failed == CountStatus(rows, FAILED)
      length == Cardinality(DOMAIN rows)
  IN  [status |-> IF completed = length THEN COMPLETED
                  ELSE IF failed = length THEN FAILED
                  ELSE IF completed > 0 THEN PARTIALLY_COMPLETED
                  ELSE PROCESSING,
       completed |-> completed, failed |-> failed]

\* updatePayrollStats of the webhook router
WebhookStats(rows) ==
  LET completed == CountStatus(rows, COMPLETED)
      failed == CountStatus(rows, FAILED)
      length == Cardinality(DOMAIN rows)
  IN  [status |-> IF completed = length THEN COMPLETED
                  ELSE IF failed = length THEN FAILED
                  ELSE IF completed > 0 THEN PARTIALLY_COMPLETED
                  ELSE PROCESSING,
       completed |-> completed, failed |-> failed]

\* a recompute that reports PARTIALLY_COMPLETED only when both a completed and a
\* failed item exist
ControllerStats_Strict(rows) ==
  LET completed == CountStatus(rows, COMPLETED)
      failed == CountStatus(rows, FAILED)
      total == Cardinality(DOMAIN rows)
  IN  [status |-> IF completed = total THEN COMPLETED
                  ELSE IF failed = total THEN FAILED
                  ELSE IF completed > 0 /\ failed > 0 THEN PARTIALLY_COMPLETED
                  ELSE PROCESSING,
       completed |-> completed, failed |-> failed]

\* PayrollController.updatePayrollStats
ControllerStats(rows) ==
  LET completed == CountStatus(rows, COMPLETED)
      failed == CountStatus(rows, FAILED)
      total == Cardinality(DOMAIN rows)
  IN  [status |-> IF completed = total THEN COMPLETED
                  ELSE IF failed = total THEN FAILED
                  ELSE IF completed > 0 THEN PARTIALLY_COMPLETED
                  ELSE PROCESSING,
       completed |-> completed, failed |-> failed]

\* the write that ends every updatePayrollStats
WriteStats(db, payrollId, st) ==
  PayrollModel_updateStatus(db, payrollId, st.status, st.completed, st.failed)

\* whether `this` is PayrollController when reconcilePayroll and authorizeBulkTransfer
\* run: the router is handed the two static methods themselves (routes lines 280 and
\* 467, router.post(path, PayrollController.reconcilePayroll)) and Express calls a
\* handler as a plain function, so that `this` is not the class
ThisIsController == FALSE

\* controller lines 323 and 560: await this.updatePayrollStats(Number(id)). With `this`
\* not the class the member access throws a TypeError and no store call is made.
ThisUpdatePayrollStats(db, payrollId) ==
  IF ThisIsController
  THEN WriteStats(db, payrollId,
                  ControllerStats(PayrollItemModel_findByPayrollId(db, payrollId)))
  ELSE db


(* ------------------------------ Monnify ------------------------------- *)
WebhookSecret == "MONNIFY_WEBHOOK_SECRET"
NoSignature == <<>>
\* crypto.createHmac('sha512', secret).update(JSON.stringify(body)).digest('hex')
Hmac(secret, body) == <<"sha512", secret, body>>

\* A reference already split at '_': <<prefix, payrollIdStr, itemIdStr>>, a decimal
\* numeral standing as the number it spells, or NoReference when eventData.reference
\* is missing.
NoReference == <<>>
ItemReferences == {Reference(ThePayroll, i) : i \in Items}
BadReferences ==
  {NoReference, <<"SALARY", ThePayroll, 1>>, <<"PAYROLL", NaN, 1>>,
   <<"PAYROLL", ThePayroll, NaN>>, <<"PAYROLL", Empty, 1>>,
   <<"PAYROLL", ThePayroll, Empty>>, Reference(ThePayroll, UnknownItem)}

\* Number(str) of a part of a reference: Number('') is 0
Number(part) == IF part = Empty THEN 0 ELSE part

\* (eventType, eventData.status, eventData.transactionDescription) as Monnify sends
\* them, and two event types the handler does not know
EventKinds ==
  {<<"SUCCESSFUL_DISBURSEMENT", "SUCCESS", NoError>>,
   <<"FAILED_DISBURSEMENT", "FAILED", "Transaction failed">>,
   <<"FAILED_DISBURSEMENT", "FAILED", NoError>>,
   <<"REVERSED_DISBURSEMENT", "REVERSED", "Transaction failed">>,
   <<"OTHER", "FAILED", NoError>>,
   <<"OTHER", "PENDING", NoError>>}

Body(k, r, t) ==
  [eventType |-> k[1],
   eventData |-> [reference |-> r, transactionReference |-> t, status |-> k[2],
                  transactionDescription |-> k[3]]]

\* events about an item, with Monnify's transaction reference of it or without one,
\* and events whose reference names no item
Bodies ==
  {Body(k, r, t) : k \in EventKinds, r \in ItemReferences, t \in {NoRef}}
    \cup {Body(k, Reference(ThePayroll, i), GatewayRef(i)) : k \in EventKinds, i \in Items}
    \cup {Body(<<"SUCCESSFUL_DISBURSEMENT", "SUCCESS", NoError>>, r, NoRef) :
            r \in BadReferences}

\* the events about an item
ItemBodies == {b \in Bodies : b.eventData.reference \in ItemReferences}

Requests ==
  {[signature |-> s, body |-> b] : s \in {"none", "forged", "valid"}, b \in Bodies}

\* the monnify-signature header of the request
SignatureOf(req) ==
  IF req.signature = "valid" THEN Hmac(WebhookSecret, req.body)
  ELSE IF req.signature = "forged" THEN Hmac("guess", req.body)
  ELSE NoSignature

verifySignature(req) ==
  IF SignatureOf(req) = NoSignature THEN FALSE
  ELSE Hmac(WebhookSecret, req.body) = SignatureOf(req)

\* What getTransactionStatus answers for a transaction reference; "THROWS" is a failed lookup.
GatewayAnswers ==
  {[paymentStatus |-> "PAID", paymentDescription |-> NoError],
   [paymentStatus |-> "FAILED", paymentDescription |-> NoError],
   [paymentStatus |-> "PENDING", paymentDescription |-> NoError],
   [paymentStatus |-> "THROWS", paymentDescription |-> NoError]}

(* --------------------------- webhook receiver ------------------------- *)
Terminal(status) == status \in {COMPLETED, FAILED}

\* lines 498-529: the item the event names, or 0 when the event is ignored
WebhookItem(db, req) ==
  LET ref == req.body.eventData.reference
  IN  IF ref = NoReference THEN 0
      ELSE IF ref[1] # "PAYROLL" THEN 0
      ELSE IF Number(ref[2]) = NaN \/ Number(ref[3]) = NaN THEN 0
      ELSE IF Number(ref[3]) \notin DOMAIN db.items THEN 0
      ELSE Number(ref[3])

\* lines 540-564: the store write the event's classification asks for
WebhookWrite(db, req, itemId) ==
  LET eventType == req.body.eventType
      eventData == req.body.eventData
  IN  IF eventType = "SUCCESSFUL_DISBURSEMENT" \/ eventData.status = "SUCCESS"
      THEN PayrollItemModel_updateStatus(db, itemId, COMPLETED,
                                         eventData.transactionReference, NoError)
      ELSE IF \/ eventType = "FAILED_DISBURSEMENT"
              \/ eventType = "REVERSED_DISBURSEMENT"
              \/ eventData.status = "FAILED"
      THEN PayrollItemModel_updateStatus(db, itemId, FAILED,
                                         eventData.transactionReference,
                                         eventData.transactionDescription)
      ELSE db

\* an idempotency check that lets a FAILED row through
AlreadyFinalized_CompletedOnly(item) == item.status = COMPLETED

\* lines 532-538: the idempotency check on the row findById returned
AlreadyFinalized(item) == item.status = COMPLETED \/ item.status = FAILED

\* The whole handler of POST /monnify/webhook, run without interruption.
WebhookRun(db, req) ==
  LET itemId == WebhookItem(db, req)
  IN  IF itemId = 0 THEN db
      ELSE IF AlreadyFinalized(db.items[itemId]) THEN db
      ELSE LET d1 == WebhookWrite(db, req, itemId)
               payrollId == Number(req.body.eventData.reference[2])
           IN  WriteStats(d1, payrollId,
                          WebhookStats(PayrollItemModel_findByPayrollId(d1, payrollId)))

\* lines 540-564: whether one of the two branches that write takes the event
EventHandled(req) ==
  \/ req.body.eventType = "SUCCESSFUL_DISBURSEMENT"
  \/ req.body.eventData.status = "SUCCESS"
  \/ req.body.eventType = "FAILED_DISBURSEMENT"
  \/ req.body.eventType = "REVERSED_DISBURSEMENT"
  \/ req.body.eventData.status = "FAILED"

\* the store call of the handler that rejects while the event is handled, if any
Faults == {"none", "findById", "updateStatus", "updatePayrollStats"}

\* the way the handler takes through lines 495-572 on `req` when the store call
\* `fault` rejects
WebhookPath(db, req, fault) ==
  LET ref == req.body.eventData.reference
  IN  IF ref = NoReference THEN "missing reference"
      ELSE IF ref[1] # "PAYROLL" \/ Number(ref[2]) = NaN \/ Number(ref[3]) = NaN
      THEN "malformed reference"
      ELSE IF fault = "findById" THEN "exception"
      ELSE IF Number(ref[3]) \notin DOMAIN db.items THEN "unknown item"
      ELSE IF AlreadyFinalized(db.items[Number(ref[3])]) THEN "already final"
      ELSE IF EventHandled(req) /\ fault = "updateStatus" THEN "exception"
      ELSE IF fault = "updatePayrollStats" THEN "exception"
      ELSE IF EventHandled(req) THEN "updated"
      ELSE "unhandled event"

\* a handler whose catch block answers 500
WebhookReply_FailsOnException(path) ==
  IF path \in {"missing reference", "malformed reference", "unknown item"}
  THEN [status |-> 200, body |-> "Ignored"]
  ELSE IF path = "already final" THEN [status |-> 200, body |-> "Already processed"]
  ELSE IF path = "exception" THEN [status |-> 500, body |-> "Error"]
  ELSE [status |-> 200, body |-> "OK"]

\* the response sent at the end of each way through the handler
\* (lines 502, 513, 521, 528, 537, 568 and the catch block, 571)
WebhookReply(path) ==
  IF path \in {"missing reference", "malformed reference", "unknown item"}
  THEN [status |-> 200, body |-> "Ignored"]
  ELSE IF path = "already final" THEN [status |-> 200, body |-> "Already processed"]
  ELSE IF path = "exception" THEN [status |-> 200, body |-> "OK"]
  ELSE [status |-> 200, body |-> "OK"]

\* the store after the handler ran on `req` with the store call `fault` rejecting:
\* a rejected updatePayrollStats leaves the item written and the batch row as it was
WebhookRunFaulty(db, req, fault) ==
  LET path == WebhookPath(db, req, fault)
  IN  IF path \in {"updated", "unhandled event"} THEN WebhookRun(db, req)
      ELSE IF path = "exception" /\ fault = "updatePayrollStats"
      THEN WebhookWrite(db, req, WebhookItem(db, req))
      ELSE db

(* ----------------------------- reconciler ----------------------------- *)
\* a sweep that looks up every item of the batch
ItemsToReconcile_Every(rows) == DOMAIN rows

\* lines 251-253
ItemsToReconcile(rows) == {i \in DOMAIN rows : Truthy(rows[i].transaction_reference)}

\* a sweep that puts an item back to PROCESSING when Monnify answers PENDING
ReconcileItem_ResetsOnPending(db, itemId, item, answer) ==
  IF answer.paymentStatus = "PAID" /\ item.status # COMPLETED
  THEN PayrollItemModel_updateStatus(db, itemId, COMPLETED,
                                     item.transaction_reference, NoError)
  ELSE IF answer.paymentStatus = "FAILED" /\ item.status # FAILED
  THEN PayrollItemModel_updateStatus(db, itemId, FAILED, item.transaction_reference,
                                     "Transaction failed")
  ELSE IF answer.paymentStatus = "PENDING"
  THEN PayrollItemModel_updateStatus(db, itemId, PROCESSING,
                                     item.transaction_reference, NoError)
  ELSE db

\* a sweep that puts an item back to PENDING, to be paid again, when Monnify answers FAILED
ReconcileItem_RequeuesFailed(db, itemId, item, answer) ==
  IF answer.paymentStatus = "PAID" /\ item.status # COMPLETED
  THEN PayrollItemModel_updateStatus(db, itemId, COMPLETED,
                                     item.transaction_reference, NoError)
  ELSE IF answer.paymentStatus = "FAILED" /\ item.status # FAILED
  THEN PayrollItemModel_updateStatus(db, itemId, PENDING, item.transaction_reference,
                                     NoError)
  ELSE db

\* lines 267-319 for one item: `item` is the row read at line 248, `answer` what Monnify says
ReconcileItem(db, itemId, item, answer) ==
  IF answer.paymentStatus = "PAID" /\ item.status # COMPLETED
  THEN PayrollItemModel_updateStatus(db, itemId, COMPLETED,
                                     item.transaction_reference, NoError)
  ELSE IF answer.paymentStatus = "FAILED" /\ item.status # FAILED
  THEN PayrollItemModel_updateStatus(
         db, itemId, FAILED, item.transaction_reference,
         IF TruthyStr(answer.paymentDescription) THEN answer.paymentDescription
         ELSE "Transaction failed")
  ELSE db

Least(S) == CHOOSE i \in S : \A j \in S : i <= j

\* the for loop of the sweep over the items still to visit
RECURSIVE ReconcileLoop(_, _, _, _)
ReconcileLoop(db, rows, todo, answers) ==
  IF todo = {} THEN db
  ELSE LET i == Least(todo)
       IN  ReconcileLoop(ReconcileItem(db, i, rows[i], answers[i]), rows,
                         todo \ {i}, answers)

\* The whole of reconcilePayroll, run without interruption.
ReconcileRun(db, payrollId, answers) ==
  IF payrollId \notin DOMAIN db.payrolls THEN db
  ELSE LET rows == PayrollItemModel_findByPayrollId(db, payrollId)
           todo == ItemsToReconcile(rows)
       IN  IF todo = {} THEN db
           ELSE ThisUpdatePayrollStats(ReconcileLoop(db, rows, todo, answers),
                                       payrollId)

\* the items of the sweep whose lookup is answered with a status that makes it write
ItemsUpdated(rows, todo, answers) ==
  {i \in todo :
     \/ answers[i].paymentStatus = "PAID" /\ rows[i].status # COMPLETED
     \/ answers[i].paymentStatus = "FAILED" /\ rows[i].status # FAILED}

\* the response of reconcilePayroll: lines 243-246, 255-261, 325-330 and, when line
\* 323 throws, the catch block (lines 331-336); a key the response does not carry is
\* Undefined
ReconcileReply(db, payrollId, answers) ==
  IF payrollId \notin DOMAIN db.payrolls
  THEN [status |-> 404, reconciled |-> Undefined, errors |-> Undefined,
        total |-> Undefined]
  ELSE LET rows == PayrollItemModel_findByPayrollId(db, payrollId)
           todo == ItemsToReconcile(rows)
       IN  IF todo = {}
           THEN [status |-> 200, reconciled |-> 0, errors |-> Undefined,
                 total |-> Undefined]
           ELSE IF ~ThisIsController
           THEN [status |-> 500, reconciled |-> Undefined, errors |-> Undefined,
                 total |-> Undefined]
           ELSE [status |-> 200,
                 reconciled |-> Cardinality(ItemsUpdated(rows, todo, answers)),
                 errors |-> Cardinality({i \in todo : answers[i].paymentStatus = "THROWS"}),
                 total |-> Cardinality(todo)]

(* --------------------------- authorization ---------------------------- *)
\* what getBatchDetails answers: it throws, or it lists the transactions of `listed`,
\* each with Monnify's transaction reference
BatchDetails == {[ok |-> ok, listed |-> l] : ok \in BOOLEAN, l \in SUBSET Items}

\* authorizeBulkTransfer lines 478-500: the items of the rows read at line 471 that get
\* Monnify's reference written
ItemsToBackfill(rows, listed) ==
  {i \in DOMAIN rows : i \in listed /\ ~Truthy(rows[i].transaction_reference)}

RECURSIVE AuthorizeBackfill(_, _)
AuthorizeBackfill(db, todo) ==
  IF todo = {} THEN db
  ELSE LET i == Least(todo)
       IN  AuthorizeBackfill(
             PayrollItemModel_updateStatus(db, i, PROCESSING, GatewayRef(i), NoError),
             todo \ {i})

\* authorizeBulkTransfer lines 451-569 after Monnify took the authorization code:
\* `rows` is read once, at line 471, and both loops go over it
AuthorizeRun(db, payrollId, details, answers) ==
  IF payrollId = Undefined \/ ~details.ok THEN db
  ELSE LET rows == PayrollItemModel_findByPayrollId(db, payrollId)
           d1 == AuthorizeBackfill(db, ItemsToBackfill(rows, details.listed))
           d2 == ReconcileLoop(d1, rows, ItemsToReconcile(rows), answers)
       IN  ThisUpdatePayrollStats(d2, payrollId)

(* ------------------------------- state -------------------------------- *)
VARIABLES
  items,      \* payroll_items: id -> row
  payrolls,   \* payrolls: id -> row
  jobs,       \* the Bull queue 'payroll-processing': slot -> job
  workers,    \* the queue workers: where each is in processBulkPayroll, and its locals
  accepted,   \* Monnify: item -> number of accepted batch requests that held its reference
  hooks,      \* webhook requests in flight: where each handler is, and its locals
  recons,     \* reconcile requests in flight: where each sweep is, and its locals
  probe,      \* the last call observed from outside: the rows handed to an aggregate
              \* recompute run on its own, or the response a handler sent
  employees,  \* employees: id -> row
  creator,    \* the createPayroll request in flight: where it is in PayrollModel.create,
              \* and its locals
  client      \* monnifyClient: whether it holds an access token, whether Date.now() has
              \* reached tokenExpiry, whether MONNIFY_CONTRACT_CODE is set, and the
              \* hours since the token held was issued

vars == <<items, payrolls, jobs, workers, accepted, hooks, recons, probe, employees,
          creator, client>>

DB == MkDB(items, payrolls)

\* The store after an operation; no processed_at is set more than MaxStamps times.
SetDB(d) ==
  /\ \A i \in DOMAIN d.items : d.items[i].processed_at <= MaxStamps
  /\ \A p \in DOMAIN d.payrolls : d.payrolls[p].processed_at <= MaxStamps
  /\ items' = d.items
  /\ payrolls' = d.payrolls

Workers == {"w1", "w2"}
Hooks == {"h1", "h2"}
Recons == {"r1"}
JobSlots == 1..MaxJobs

NoJob == [state |-> "absent", payrollId |-> ThePayroll, attemptsMade |-> 0]
IdleWorker == [pc |-> "idle", job |-> 0, payrollId |-> ThePayroll, rows |-> <<>>,
               payable |-> {},
               cursor |-> 0, transfers |-> <<>>, results |-> {},
               stats |-> WorkerStats(<<>>), wrote |-> {}]
NoRequest == [signature |-> "none",
              body |-> Body(<<"", "", NoError>>, NoReference, NoRef)]
IdleHook == [pc |-> "idle", req |-> NoRequest, itemId |-> 0,
             item |-> [status |-> PENDING],
             stats |-> WebhookStats(<<>>)]
IdleRecon == [pc |-> "idle", payrollId |-> ThePayroll, rows |-> <<>>, todo |-> {}]
NoProbe == [rows |-> <<>>, site |-> "none"]
IdleCreator == [pc |-> "idle", ids |-> {}, totalEmployees |-> 0, totalAmount |-> 0,
                payroll |-> 0, rows |-> <<>>]
\* new MonnifyClient(): accessToken = null, tokenExpiry = 0
NewClient == [accessToken |-> FALSE, expired |-> TRUE, contractCode |-> TRUE, age |-> 0]
\* the employees EmployeeModel.create inserted
NewEmployee == [salary |-> StartingSalary, is_active |-> TRUE]

Init ==
  /\ items = [i \in Items |-> [NewItem EXCEPT !.employee_id = i]]
  /\ payrolls = [p \in PayrollIds |-> NewPayroll]
  /\ employees = [e \in Employees |-> NewEmployee]
  /\ creator = IdleCreator
  /\ client = NewClient
  /\ jobs = [j \in JobSlots |-> NoJob]
  /\ workers = [w \in Workers |-> IdleWorker]
  /\ accepted = [i \in Items |-> 0]
  /\ hooks = [h \in Hooks |-> IdleHook]
  /\ recons = [r \in Recons |-> IdleRecon]
  /\ probe = NoProbe

(* --------------------------- payroll creation ------------------------- *)
\* lines 300-309 and 325-328: WHERE is_active = true [AND id = ANY(employee_ids)];
\* `ids` is {} when no list, or an empty one, was given
Selected(emps, ids) ==
  {e \in DOMAIN emps : emps[e].is_active /\ (ids = {} \/ e \in ids)}

\* COALESCE(SUM(salary), 0) over the employees of `set`
RECURSIVE SumSalary(_, _)
SumSalary(emps, set) ==
  IF set = {} THEN 0
  ELSE LET e == Least(set) IN emps[e].salary + SumSalary(emps, set \ {e})

\* createPayroll is called; lines 305-313, the first query
C_Count(ids) ==
  /\ creator.pc = "idle"
  /\ payrolls = <<>>
  /\ creator' = [IdleCreator EXCEPT
       !.pc = "insertPayroll", !.ids = ids,
       !.totalEmployees = Cardinality(Selected(employees, ids)),
       !.totalAmount = SumSalary(employees, Selected(employees, ids))]
  /\ UNCHANGED <<client, items, payrolls, jobs, workers, accepted, hooks, recons, probe, employees>>

\* lines 315-322: INSERT INTO payrolls
C_InsertPayroll ==
  /\ creator.pc = "insertPayroll"
  /\ payrolls' = Append(payrolls,
                        [NewPayroll EXCEPT !.total_employees = creator.totalEmployees,
                                           !.total_amount = creator.totalAmount])
  /\ creator' = [creator EXCEPT !.pc = "select", !.payroll = Len(payrolls) + 1]
  /\ UNCHANGED <<client, items, jobs, workers, accepted, hooks, recons, probe, employees>>

\* lines 325-328, the second read of employees: id -> salary of the rows returned
C_Select ==
  /\ creator.pc = "select"
  /\ LET found == Selected(employees, creator.ids)
     IN  creator' = [creator EXCEPT
           !.rows = [e \in found |-> employees[e].salary],
           !.pc = IF found = {} THEN "return" ELSE "insertItem"]
  /\ UNCHANGED <<client, items, payrolls, jobs, workers, accepted, hooks, recons, probe, employees>>

\* lines 330-336, one turn of the loop; the SELECT has no ORDER BY
C_InsertItem ==
  /\ creator.pc = "insertItem"
  /\ \E e \in DOMAIN creator.rows :
       /\ items' = Append(items, [NewItem EXCEPT !.employee_id = e,
                                                 !.amount = creator.rows[e]])
       /\ creator' = [creator EXCEPT
            !.rows = [x \in DOMAIN creator.rows \ {e} |-> creator.rows[x]],
            !.pc = IF DOMAIN creator.rows = {e} THEN "return" ELSE "insertItem"]
  /\ UNCHANGED <<client, payrolls, jobs, workers, accepted, hooks, recons, probe, employees>>

\* line 338: the payroll row inserted is returned
C_Return ==
  /\ creator.pc = "return"
  /\ probe' = [site |-> "createPayroll", payroll |-> creator.payroll, ids |-> creator.ids]
  /\ creator' = IdleCreator
  /\ UNCHANGED <<client, items, payrolls, jobs, workers, accepted, hooks, recons, employees>>

CreateStep ==
  \/ \E ids \in SUBSET Employees : C_Count(ids)
  \/ C_InsertPayroll
  \/ C_Select
  \/ C_InsertItem
  \/ C_Return

\* EmployeeModel.create
AddEmployee ==
  /\ Len(employees) < NumItems
  /\ employees' = Append(employees, NewEmployee)
  /\ UNCHANGED <<client, items, payrolls, jobs, workers, accepted, hooks, recons, probe, creator>>

\* EmployeeModel.update with a salary
SetSalary(e, salary) ==
  /\ e \in DOMAIN employees
  /\ employees' = [employees EXCEPT ![e].salary = salary]
  /\ UNCHANGED <<client, items, payrolls, jobs, workers, accepted, hooks, recons, probe, creator>>

\* EmployeeModel.delete
Deactivate(e) ==
  /\ e \in DOMAIN employees
  /\ employees' = [employees EXCEPT ![e].is_active = FALSE]
  /\ UNCHANGED <<client, items, payrolls, jobs, workers, accepted, hooks, recons, probe, creator>>

\* the store before any employee or payroll was created
InitCreate ==
  /\ items = <<>>
  /\ payrolls = <<>>
  /\ jobs = [j \in JobSlots |-> NoJob]
  /\ workers = [w \in Workers |-> IdleWorker]
  /\ accepted = [i \in Items |-> 0]
  /\ hooks = [h \in Hooks |-> IdleHook]
  /\ recons = [r \in Recons |-> IdleRecon]
  /\ probe = NoProbe
  /\ employees = <<>>
  /\ creator = IdleCreator
  /\ client = NewClient

(* --------------------------- the Monnify client ----------------------- *)
\* the transfer lists initiateBulkTransfer is called with: the k-th transfer has the
\* reference of item k; '' is a missing account number, bank code or name
TransferInputs ==
  UNION {[1..n -> [amount : {-1, 0, 1}, recipientAccountNumber : {"", "0123456789"},
                   recipientBankCode : {"", "058"}, recipientName : {"", "Ada"}]] :
           n \in 0..MaxTransfers}

\* a client that logs in again only when it holds no token
NeedsLogin_NoTokenOnly(c) == ~c.accessToken

\* line 79
NeedsLogin(c) == ~c.accessToken \/ c.expired

\* lines 66-68: the token of the login response is kept, to be used for 23 hours
Authenticated(c) == [c EXCEPT !.accessToken = TRUE, !.expired = FALSE, !.age = 0]

\* the client after `hours` more hours: Date.now() may have reached tokenExpiry
Later(c, hours) ==
  IF ~c.accessToken THEN c
  ELSE [c EXCEPT !.age = @ + hours,
                 !.expired = @ \/ c.age + hours >= TokenMarginHours]

NoFault == [message |-> "", reference |-> NoReference]

\* lines 162-182: what the validation loop throws at the transfer in place k, if anything
TransferFault(transfers, k) ==
  LET t == transfers[k]
      ref == Reference(ThePayroll, k)
  IN  IF t.amount = 0 \/ t.amount <= 0
      THEN [message |-> "Invalid amount for transfer", reference |-> ref]
      ELSE IF t.recipientAccountNumber = ""
      THEN [message |-> "Missing account number for transfer", reference |-> ref]
      ELSE IF t.recipientBankCode = ""
      THEN [message |-> "Missing bank code for transfer", reference |-> ref]
      ELSE IF t.recipientName = ""
      THEN [message |-> "Missing recipient name for transfer", reference |-> ref]
      ELSE NoFault

\* lines 153-183: the error the checks before the request throw, or NoFault
BulkTransferFault(c, transfers) ==
  IF Len(transfers) = 0
  THEN [message |-> "No transfers provided", reference |-> NoReference]
  ELSE IF ~c.contractCode
  THEN [message |-> "Monnify contract code is not configured", reference |-> NoReference]
  ELSE LET bad == {k \in DOMAIN transfers : TransferFault(transfers, k) # NoFault}
       IN  IF bad = {} THEN NoFault ELSE TransferFault(transfers, Least(bad))

\* MonnifyClient.initiateBulkTransfer, the whole call: ensureAuthenticated (line 151)
\* logs in when no unexpired token is held, then the checks, then the batch request.
\* `loginOk` and `batchOk` tell whether Monnify answers the login and the batch request
\* with success; a request that is not sent has no answer, taken as TRUE.
InitiateBulkTransfer(transfers, loginOk, batchOk) ==
  LET login == NeedsLogin(client)
      c1 == IF login /\ loginOk
            THEN Authenticated(client)
            ELSE client
      fault == IF login /\ ~loginOk
               THEN [message |-> "Failed to authenticate with Monnify",
                     reference |-> NoReference]
               ELSE BulkTransferFault(c1, transfers)
      posted == fault = NoFault
  IN  /\ login \/ loginOk
      /\ posted \/ batchOk
      /\ client' = c1
      /\ probe' = [site |-> "initiateBulkTransfer", transfers |-> transfers,
                   requests |->
                     (IF login THEN <<"/api/v1/auth/login">> ELSE <<>>)
                       \o (IF posted THEN <<"/api/v2/disbursements/batch">> ELSE <<>>),
                   error |-> IF posted /\ ~batchOk
                             THEN [message |-> "Monnify API error",
                                   reference |-> NoReference]
                             ELSE fault]
      /\ UNCHANGED <<items, payrolls, jobs, workers, accepted, hooks, recons, employees,
                     creator>>

\* time passes: Date.now() reaches tokenExpiry
TokenExpires ==
  /\ client.accessToken
  /\ ~client.expired
  /\ client' = [client EXCEPT !.expired = TRUE, !.age = TokenMarginHours]
  /\ UNCHANGED <<items, payrolls, jobs, workers, accepted, hooks, recons, probe,
                 employees, creator>>

\* the methods of the client that send a request to Monnify, with the path of it
Methods ==
  {"initiateTransfer", "getTransactionStatus", "initiateBulkTransfer",
   "authorizeBulkTransfer", "getBatchDetails", "getAccountBalance"}

AuthFailure == [message |-> "Failed to authenticate with Monnify", reference |-> NoReference]

\* ensureAuthenticated (lines 78-82) on client c: the client after it, the login
\* request if one was sent (authenticate posts it with axios itself, with the Basic
\* credentials), and whether it threw
EnsureAuthenticated(c, loginOk) ==
  IF ~NeedsLogin(c) THEN [client |-> c, requests |-> <<>>, threw |-> FALSE]
  ELSE [client |-> IF loginOk THEN Authenticated(c) ELSE c,
        requests |-> <<[url |-> "/api/v1/auth/login", bearer |-> FALSE, age |-> 0,
                        expired |-> FALSE]>>,
        threw |-> ~loginOk]

\* One call of a method of the client, from start to end: ensureAuthenticated at the
\* start of the method, the checks of the arguments, then this.client.get/post, whose
\* request interceptor (lines 36-46) calls ensureAuthenticated again and sets the
\* Bearer header from accessToken as the request leaves. `wait` hours pass between the
\* two; loginOk1 and loginOk2 tell how Monnify answers the logins, argsOk whether the
\* arguments pass the checks of the method.
ClientCall(method, argsOk, wait, loginOk1, loginOk2) ==
  LET first == EnsureAuthenticated(client, loginOk1)
      c1 == Later(first.client, wait)
      second == EnsureAuthenticated(c1, loginOk2)
      c2 == second.client
      sent == <<[url |-> method, bearer |-> c2.accessToken, age |-> c2.age,
                 expired |-> c2.expired]>>
  IN  /\ client.age + wait <= MaxAge
      /\ client' = IF first.threw THEN client
                   ELSE IF ~argsOk THEN first.client
                   ELSE c2
      /\ probe' = [site |-> "client", method |-> method, before |-> client,
                   requests |-> IF first.threw \/ ~argsOk THEN first.requests
                                ELSE IF second.threw
                                THEN first.requests \o second.requests
                                ELSE first.requests \o second.requests \o sent,
                   error |-> IF first.threw THEN AuthFailure
                             ELSE IF ~argsOk
                             THEN [message |-> "invalid arguments",
                                   reference |-> NoReference]
                             ELSE IF second.threw THEN AuthFailure
                             ELSE NoFault]
      /\ UNCHANGED <<items, payrolls, jobs, workers, accepted, hooks, recons, employees,
                     creator>>

\* an hour passes
HourPasses ==
  /\ client.accessToken
  /\ client.age < MaxAge
  /\ client' = Later(client, 1)
  /\ UNCHANGED <<items, payrolls, jobs, workers, accepted, hooks, recons, probe,
                 employees, creator>>

\* a client that holds no token yet, an unexpired one or an expired one, with
\* MONNIFY_CONTRACT_CODE set or not
InitClient ==
  /\ items = [i \in Items |-> [NewItem EXCEPT !.employee_id = i]]
  /\ payrolls = [p \in PayrollIds |-> NewPayroll]
  /\ jobs = [j \in JobSlots |-> NoJob]
  /\ workers = [w \in Workers |-> IdleWorker]
  /\ accepted = [i \in Items |-> 0]
  /\ hooks = [h \in Hooks |-> IdleHook]
  /\ recons = [r \in Recons |-> IdleRecon]
  /\ probe = NoProbe
  /\ employees = [e \in Employees |-> NewEmployee]
  /\ creator = IdleCreator
  /\ \E accessToken \in BOOLEAN, expired \in BOOLEAN, contractCode \in BOOLEAN :
       /\ ~accessToken => expired
       /\ client = [accessToken |-> accessToken, expired |-> expired,
                    contractCode |-> contractCode,
                    age |-> IF accessToken /\ expired THEN TokenMarginHours ELSE 0]

(* ------------------------ the caller-facing layer --------------------- *)
\* an id no payroll has
UnknownPayroll == ThePayroll + 1

\* a guard that rejects a COMPLETED payroll only
ProcessPayrollCode_CompletedOnly(db, id) ==
  IF id \notin DOMAIN db.payrolls THEN 404
  ELSE IF db.payrolls[id].status = COMPLETED THEN 400
  ELSE 200

\* PayrollController.processPayroll lines 199-214: the HTTP status the request ends with
ProcessPayrollCode(db, id) ==
  IF id \notin DOMAIN db.payrolls THEN 404
  ELSE IF db.payrolls[id].status = COMPLETED \/ db.payrolls[id].status = PROCESSING
  THEN 400
  ELSE 200

\* processPayrollItems: payrollQueue.add({ payrollId }), into the first free slot
QueueAdd(payrollId) ==
  \E j \in JobSlots :
    /\ jobs[j].state = "absent"
    /\ \A k \in JobSlots : k < j => jobs[k].state # "absent"
    /\ jobs' = [jobs EXCEPT ![j] = [state |-> "waiting", payrollId |-> payrollId,
                                    attemptsMade |-> 0]]

\* PayrollController.processPayroll: the status guard, then payrollQueue.add
ProcessPayroll(payrollId) ==
  /\ ProcessPayrollCode(DB, payrollId) = 200
  /\ QueueAdd(payrollId)
  /\ UNCHANGED <<client, employees, creator, items, payrolls, workers, accepted, hooks, recons, probe>>

\* PayrollController.processPayroll with the response it sends, rejections included
StartProcessing(id) ==
  /\ IF ProcessPayrollCode(DB, id) = 200 THEN QueueAdd(id) ELSE UNCHANGED jobs
  /\ probe' = [site |-> "processPayroll", id |-> id, code |-> ProcessPayrollCode(DB, id)]
  /\ UNCHANGED <<client, employees, creator, items, payrolls, workers, accepted, hooks, recons>>

(* --------------------------- the queue worker ------------------------- *)
\* a filter that takes every PROCESSING row, whether or not it holds a reference
Payable_AnyProcessing(rows) ==
  {i \in DOMAIN rows : rows[i].status = PENDING \/ rows[i].status = PROCESSING}

\* a filter that takes PENDING rows only
Payable_PendingOnly(rows) == {i \in DOMAIN rows : rows[i].status = PENDING}

\* lines 31-35: the filter on the rows findByPayrollId returned
Payable(rows) ==
  {i \in DOMAIN rows :
     \/ rows[i].status = PENDING
     \/ (rows[i].status = PROCESSING /\ ~Truthy(rows[i].transaction_reference))}

\* the next item of a for loop over `set` (in id order) at or after `from`; 0 when done
NextOf(set, from) ==
  IF {i \in set : i >= from} = {} THEN 0 ELSE Least({i \in set : i >= from})

\* Bull: the handler returned; removeOnComplete drops the job
JobCompleted(j) == jobs' = [jobs EXCEPT ![j] = NoJob]

\* a queue that retries once more than the attempts configured
JobThrew_OneMore(j) ==
  jobs' = [jobs EXCEPT ![j] =
             [@ EXCEPT !.attemptsMade = @ + 1,
                       !.state = IF jobs[j].attemptsMade + 1 <= Attempts
                                 THEN "waiting" ELSE "failed"]]

\* Bull: the handler threw; the job is retried while attempts remain
JobThrew(j) ==
  jobs' = [jobs EXCEPT ![j] =
             [@ EXCEPT !.attemptsMade = @ + 1,
                       !.state = IF jobs[j].attemptsMade + 1 < Attempts
                                 THEN "waiting" ELSE "failed"]]

\* payrollQueue.process picks a waiting job; processBulkPayroll lines 29-37
\* (of the rows read, the invocation uses id, status and transaction_reference)
W_Start(w, j) ==
  /\ workers[w].pc = "idle"
  /\ jobs[j].state = "waiting"
  /\ LET payrollId == jobs[j].payrollId
         found == PayrollItemModel_findByPayrollId(DB, payrollId)
         rows == [i \in DOMAIN found |->
                    [status |-> found[i].status,
                     transaction_reference |-> found[i].transaction_reference]]
         payable == Payable(rows)
     IN  IF payable = {}
         THEN /\ JobCompleted(j)
              /\ UNCHANGED workers
         ELSE /\ jobs' = [jobs EXCEPT ![j].state = "active"]
              /\ workers' = [workers EXCEPT ![w] =
                   [IdleWorker EXCEPT !.pc = "setProcessing", !.job = j,
                                      !.payrollId = payrollId, !.rows = rows,
                                      !.payable = payable]]
  /\ UNCHANGED <<client, employees, creator, items, payrolls, accepted, hooks, recons, probe>>

\* line 39
W_SetProcessing(w) ==
  /\ workers[w].pc = "setProcessing"
  /\ SetDB(PayrollModel_updateStatus(DB, workers[w].payrollId, PROCESSING,
                                     Undefined, Undefined))
  /\ workers' = [workers EXCEPT ![w].pc = "mark",
                                ![w].cursor = NextOf(workers[w].payable, 1)]
  /\ UNCHANGED <<client, employees, creator, jobs, accepted, hooks, recons, probe>>

\* lines 43-59, one turn of the loop
W_Mark(w) ==
  /\ workers[w].pc = "mark"
  /\ LET i == workers[w].cursor
         next == NextOf(workers[w].payable, i + 1)
     IN  /\ SetDB(PayrollItemModel_updateStatus(DB, i, PROCESSING, NoRef, NoError))
         /\ workers' = [workers EXCEPT
              ![w].transfers = Append(@, Reference(workers[w].payrollId, i)),
              ![w].wrote = @ \cup {i},
              ![w].cursor = next,
              ![w].pc = IF next = 0 THEN "submit" ELSE "mark"]
  /\ UNCHANGED <<client, employees, creator, jobs, accepted, hooks, recons, probe>>

\* the items whose references a transfer list holds
TransferItems(transfers) == {transfers[k][3] : k \in DOMAIN transfers}

\* what Monnify may put in responseBody.transactionList for a transfer list
TransactionLists(transfers) ==
  SUBSET {[reference |-> transfers[k], transactionReference |-> GatewayRef(transfers[k][3])] :
            k \in DOMAIN transfers}

\* a loop that takes every submitted item as listed in the response
Matched_Every(payrollId, payable, results) == payable

\* line 71-73: the items of `payable` with a match that carries a transactionReference
Matched(payrollId, payable, results) ==
  {i \in payable :
     \E r \in results : r.reference = Reference(payrollId, i)
                        /\ Truthy(r.transactionReference)}

\* lines 61-67: Monnify takes the batch and the response arrives
W_Submit(w) ==
  /\ workers[w].pc = "submit"
  /\ \A i \in TransferItems(workers[w].transfers) : accepted[i] < MaxAccepted
  /\ accepted' = [i \in Items |->
                    IF i \in TransferItems(workers[w].transfers)
                    THEN accepted[i] + 1 ELSE accepted[i]]
  /\ \E results \in TransactionLists(workers[w].transfers) :
       LET first == NextOf(Matched(workers[w].payrollId, workers[w].payable, results), 1)
       IN  workers' = [workers EXCEPT
             ![w].results = results,
             ![w].cursor = first,
             ![w].pc = IF first = 0 THEN "statsRead" ELSE "backfill"]
  /\ UNCHANGED <<client, employees, creator, items, payrolls, jobs, hooks, recons, probe>>

\* lines 61-65: the call throws or the response says requestSuccessful: false;
\* `taken` tells whether Monnify had taken the batch before the failure
W_SubmitFails(w, taken) ==
  /\ workers[w].pc = "submit"
  /\ IF taken
     THEN /\ \A i \in TransferItems(workers[w].transfers) : accepted[i] < MaxAccepted
          /\ accepted' = [i \in Items |->
                            IF i \in TransferItems(workers[w].transfers)
                            THEN accepted[i] + 1 ELSE accepted[i]]
     ELSE UNCHANGED accepted
  /\ JobThrew(workers[w].job)
  /\ workers' = [workers EXCEPT ![w] = IdleWorker]
  /\ UNCHANGED <<client, employees, creator, items, payrolls, hooks, recons, probe>>

\* lines 69-80, one turn of the loop that writes
W_Backfill(w) ==
  /\ workers[w].pc = "backfill"
  /\ LET i == workers[w].cursor
         next == NextOf(Matched(workers[w].payrollId, workers[w].payable,
                                workers[w].results), i + 1)
     IN  /\ SetDB(PayrollItemModel_updateStatus(DB, i, PROCESSING, GatewayRef(i), NoError))
         /\ workers' = [workers EXCEPT
              ![w].wrote = @ \cup {i},
              ![w].cursor = next,
              ![w].pc = IF next = 0 THEN "statsRead" ELSE "backfill"]
  /\ UNCHANGED <<client, employees, creator, jobs, accepted, hooks, recons, probe>>

\* line 86-102: updatePayrollStats reads the rows
W_StatsRead(w) ==
  /\ workers[w].pc = "statsRead"
  /\ workers' = [workers EXCEPT
       ![w].stats = WorkerStats(PayrollItemModel_findByPayrollId(DB, workers[w].payrollId)),
       ![w].pc = "statsWrite"]
  /\ UNCHANGED <<client, employees, creator, items, payrolls, jobs, accepted, hooks, recons, probe>>

\* line 104, and the handler returns
W_StatsWrite(w) ==
  /\ workers[w].pc = "statsWrite"
  /\ SetDB(WriteStats(DB, workers[w].payrollId, workers[w].stats))
  /\ JobCompleted(workers[w].job)
  /\ workers' = [workers EXCEPT ![w] = IdleWorker]
  /\ UNCHANGED <<client, employees, creator, accepted, hooks, recons, probe>>

\* a store call of the invocation rejects (or the process dies): the handler throws
W_Throws(w) ==
  /\ workers[w].pc \in {"setProcessing", "mark", "backfill", "statsRead", "statsWrite"}
  /\ JobThrew(workers[w].job)
  /\ workers' = [workers EXCEPT ![w] = IdleWorker]
  /\ UNCHANGED <<client, employees, creator, items, payrolls, accepted, hooks, recons, probe>>

WorkerStep(w) ==
  \/ \E j \in JobSlots : W_Start(w, j)
  \/ W_SetProcessing(w)
  \/ W_Mark(w)
  \/ W_Submit(w)
  \/ \E taken \in BOOLEAN : W_SubmitFails(w, taken)
  \/ W_Backfill(w)
  \/ W_StatsRead(w)
  \/ W_StatsWrite(w)
  \/ W_Throws(w)

(* ------------------ whole handlers, run without interruption ---------- *)
\* POST /monnify/webhook
Webhook(req) ==
  /\ SetDB(WebhookRun(DB, req))
  /\ UNCHANGED <<client, employees, creator, jobs, workers, accepted, hooks, recons, probe>>

\* POST /:id/reconcile
Reconcile(payrollId, answers) ==
  /\ SetDB(ReconcileRun(DB, payrollId, answers))
  /\ UNCHANGED <<client, employees, creator, jobs, workers, accepted, hooks, recons, probe>>

\* POST /monnify/webhook with the response it sends, a store call rejecting or not
WebhookAnswered(req, fault) ==
  /\ SetDB(WebhookRunFaulty(DB, req, fault))
  /\ probe' = [site |-> "webhook", path |-> WebhookPath(DB, req, fault),
               reply |-> WebhookReply(WebhookPath(DB, req, fault))]
  /\ UNCHANGED <<client, employees, creator, jobs, workers, accepted, hooks, recons>>

\* POST /:id/reconcile with the response it sends
ReconcileAnswered(payrollId, answers) ==
  /\ SetDB(ReconcileRun(DB, payrollId, answers))
  /\ probe' = [site |-> "reconcile", reply |-> ReconcileReply(DB, payrollId, answers)]
  /\ UNCHANGED <<client, employees, creator, jobs, workers, accepted, hooks, recons>>

\* POST /batch/authorize; Monnify lists the transfers of the requests it accepted
Authorize(payrollId, details, answers) ==
  /\ \A i \in details.listed : accepted[i] > 0
  /\ SetDB(AuthorizeRun(DB, payrollId, details, answers))
  /\ UNCHANGED <<client, employees, creator, jobs, workers, accepted, hooks, recons, probe>>

\* lines 43-59 with no other request in between
RECURSIVE MarkLoop(_, _)
MarkLoop(db, todo) ==
  IF todo = {} THEN db
  ELSE LET i == Least(todo)
       IN  MarkLoop(PayrollItemModel_updateStatus(db, i, PROCESSING, NoRef, NoError),
                    todo \ {i})

\* the transfer list lines 43-59 build for `todo`
RECURSIVE TransfersOf(_, _)
TransfersOf(payrollId, todo) ==
  IF todo = {} THEN <<>>
  ELSE LET i == Least(todo)
       IN  <<Reference(payrollId, i)>> \o TransfersOf(payrollId, todo \ {i})

\* lines 69-80 with no other request in between
RECURSIVE BackfillLoop(_, _)
BackfillLoop(db, todo) ==
  IF todo = {} THEN db
  ELSE LET i == Least(todo)
       IN  BackfillLoop(
             PayrollItemModel_updateStatus(db, i, PROCESSING, GatewayRef(i), NoError),
             todo \ {i})

\* processBulkPayroll up to the gateway call
ProcessMarked(db, payrollId) ==
  LET payable == Payable(PayrollItemModel_findByPayrollId(db, payrollId))
  IN  IF payable = {} THEN db
      ELSE MarkLoop(PayrollModel_updateStatus(db, payrollId, PROCESSING,
                                              Undefined, Undefined), payable)

\* a handler that recomputes the aggregate also when nothing is payable
ProcessRun_RecomputesAlways(db, payrollId, results) ==
  LET payable == Payable(PayrollItemModel_findByPayrollId(db, payrollId))
      d1 == IF payable = {} THEN db
            ELSE BackfillLoop(ProcessMarked(db, payrollId),
                              Matched(payrollId, payable, results))
  IN  WriteStats(d1, payrollId,
                 WorkerStats(PayrollItemModel_findByPayrollId(d1, payrollId)))

\* The whole of processBulkPayroll when Monnify answers with `results`.
ProcessRun(db, payrollId, results) ==
  LET payable == Payable(PayrollItemModel_findByPayrollId(db, payrollId))
  IN  IF payable = {} THEN db
      ELSE LET d1 == BackfillLoop(ProcessMarked(db, payrollId),
                                  Matched(payrollId, payable, results))
           IN  WriteStats(d1, payrollId,
                          WorkerStats(PayrollItemModel_findByPayrollId(d1, payrollId)))

Accept(transfers) ==
  /\ \A i \in TransferItems(transfers) : accepted[i] < MaxAccepted
  /\ accepted' = [i \in Items |->
                    IF i \in TransferItems(transfers) THEN accepted[i] + 1
                    ELSE accepted[i]]

\* A job run from start to end: the invocation returns
RunJob(j) ==
  /\ jobs[j].state = "waiting"
  /\ LET payrollId == jobs[j].payrollId
         payable == Payable(PayrollItemModel_findByPayrollId(DB, payrollId))
         transfers == TransfersOf(payrollId, payable)
     IN  IF payable = {}
         THEN UNCHANGED <<items, payrolls, accepted>>
         ELSE /\ Accept(transfers)
              /\ \E results \in TransactionLists(transfers) :
                   SetDB(ProcessRun(DB, payrollId, results))
  /\ JobCompleted(j)
  /\ UNCHANGED <<client, employees, creator, workers, hooks, recons, probe>>

\* A job run from start to end: the gateway call fails and the invocation throws
RunJobFails(j, taken) ==
  /\ jobs[j].state = "waiting"
  /\ LET payrollId == jobs[j].payrollId
         payable == Payable(PayrollItemModel_findByPayrollId(DB, payrollId))
     IN  /\ payable # {}
         /\ IF taken THEN Accept(TransfersOf(payrollId, payable))
            ELSE UNCHANGED accepted
         /\ SetDB(ProcessMarked(DB, payrollId))
  /\ JobThrew(j)
  /\ UNCHANGED <<client, employees, creator, workers, hooks, recons, probe>>

\* a transfer list built from the salary the employee has when the job runs
TransferAmount_CurrentSalary(item, employee) == employee.salary

\* line 52: Number(item.amount), of the amount findByPayrollId read from the item row
\* with parseFloat; a DECIMAL(15, 2) is the same number after both
TransferAmount(item, employee) == item.amount

\* lines 43-59: item -> amount, of the transfer list built for the items of `payable`,
\* each with the employee EmployeeModel.findById returned for it
TransferAmounts(db, emps, payable) ==
  [i \in payable |-> TransferAmount(db.items[i], emps[db.items[i].employee_id])]

\* lines 37 and 61: the calls of monnifyClient.initiateBulkTransfer an invocation makes
InvocationCalls(db, payrollId) ==
  IF Payable(PayrollItemModel_findByPayrollId(db, payrollId)) = {} THEN 0 ELSE 1

\* A job run from start to end, with the gateway calls it made: the invocation returns
RunJobAnswered(j) ==
  /\ jobs[j].state = "waiting"
  /\ LET payrollId == jobs[j].payrollId
         payable == Payable(PayrollItemModel_findByPayrollId(DB, payrollId))
         transfers == TransfersOf(payrollId, payable)
     IN  /\ IF InvocationCalls(DB, payrollId) = 0 THEN UNCHANGED accepted
            ELSE Accept(transfers)
         /\ \E results \in TransactionLists(transfers) :
              /\ SetDB(ProcessRun(DB, payrollId, results))
              /\ probe' = [site |-> "processBulkPayroll", payrollId |-> payrollId,
                           calls |-> InvocationCalls(DB, payrollId),
                           sent |-> TransferAmounts(DB, employees, payable),
                           results |-> results]
  /\ JobCompleted(j)
  /\ UNCHANGED <<client, employees, creator, workers, hooks, recons>>

(* -------------------- the webhook handler, call by call --------------- *)
\* lines 496-538: the request is parsed and findById answers; of the row read,
\* the handler uses the status
H_Receive(h, req) ==
  /\ hooks[h].pc = "idle"
  /\ LET itemId == WebhookItem(DB, req)
     IN  /\ itemId # 0
         /\ hooks' = [hooks EXCEPT ![h] =
              IF AlreadyFinalized(items[itemId]) THEN IdleHook
              ELSE [IdleHook EXCEPT !.pc = "write", !.req = req, !.itemId = itemId,
                                    !.item = [status |-> items[itemId].status]]]
  /\ UNCHANGED <<client, employees, creator, items, payrolls, jobs, workers, accepted, recons, probe>>

\* lines 540-564
H_Write(h) ==
  /\ hooks[h].pc = "write"
  /\ SetDB(WebhookWrite(DB, hooks[h].req, hooks[h].itemId))
  /\ hooks' = [hooks EXCEPT ![h].pc = "statsRead"]
  /\ UNCHANGED <<client, employees, creator, jobs, workers, accepted, recons, probe>>

\* lines 578-594
H_StatsRead(h) ==
  /\ hooks[h].pc = "statsRead"
  /\ hooks' = [hooks EXCEPT
       ![h].stats = WebhookStats(PayrollItemModel_findByPayrollId(
                                   DB, Number(hooks[h].req.body.eventData.reference[2]))),
       ![h].pc = "statsWrite"]
  /\ UNCHANGED <<client, employees, creator, items, payrolls, jobs, workers, accepted, recons, probe>>

\* line 596, then res.status(200)
H_StatsWrite(h) ==
  /\ hooks[h].pc = "statsWrite"
  /\ SetDB(WriteStats(DB, Number(hooks[h].req.body.eventData.reference[2]),
                       hooks[h].stats))
  /\ hooks' = [hooks EXCEPT ![h] = IdleHook]
  /\ UNCHANGED <<client, employees, creator, jobs, workers, accepted, recons, probe>>

(* ---------------------- the reconciler, call by call ------------------ *)
\* lines 242-261: of the rows read, the sweep uses status and transaction_reference
R_Load(r, payrollId) ==
  /\ recons[r].pc = "idle"
  /\ payrollId \in DOMAIN payrolls
  /\ LET rows == PayrollItemModel_findByPayrollId(DB, payrollId)
         todo == ItemsToReconcile(rows)
     IN  /\ todo # {}
         /\ recons' = [recons EXCEPT ![r] =
              [IdleRecon EXCEPT !.pc = "item", !.payrollId = payrollId, !.todo = todo,
                 !.rows = [i \in todo |->
                             [status |-> rows[i].status,
                              transaction_reference |-> rows[i].transaction_reference]]]]
  /\ UNCHANGED <<client, employees, creator, items, payrolls, jobs, workers, accepted, hooks, probe>>

\* lines 266-320, one turn of the loop
R_Item(r, answer) ==
  /\ recons[r].pc = "item"
  /\ LET i == Least(recons[r].todo)
     IN  /\ SetDB(ReconcileItem(DB, i, recons[r].rows[i], answer))
         /\ recons' = [recons EXCEPT
              ![r].todo = @ \ {i},
              ![r].pc = IF recons[r].todo = {i} THEN "stats" ELSE "item"]
  /\ UNCHANGED <<client, employees, creator, jobs, workers, accepted, hooks, probe>>

\* line 323, then the summary (lines 325-330) or the catch block (lines 331-336)
R_Stats(r) ==
  /\ recons[r].pc = "stats"
  /\ SetDB(ThisUpdatePayrollStats(DB, recons[r].payrollId))
  /\ recons' = [recons EXCEPT ![r] = IdleRecon]
  /\ UNCHANGED <<client, employees, creator, jobs, workers, accepted, hooks, probe>>

(* ------------------ an aggregate recompute run on its own ------------- *)
\* every vector of at most MaxLen item rows, by status
StatusVectors ==
  UNION {[1..n -> {[NewItem EXCEPT !.status = st] : st \in ItemStatuses}] : n \in 0..MaxLen}

StatsAt(site, rows) ==
  IF site = "worker" THEN WorkerStats(rows)
  ELSE IF site = "webhook" THEN WebhookStats(rows)
  ELSE ControllerStats(rows)

\* updatePayrollStats at one of its three sites, findByPayrollId having returned probe.rows
Recompute(site) ==
  /\ probe.site = "none"
  /\ probe' = [probe EXCEPT !.site = site]
  /\ SetDB(WriteStats(DB, ThePayroll, StatsAt(site, probe.rows)))
  /\ UNCHANGED <<client, employees, creator, jobs, workers, accepted, hooks, recons>>

InitStats ==
  /\ items = [i \in Items |-> [NewItem EXCEPT !.employee_id = i]]
  /\ payrolls = [p \in PayrollIds |-> NewPayroll]
  /\ employees = [e \in Employees |-> NewEmployee]
  /\ creator = IdleCreator
  /\ client = NewClient
  /\ jobs = [j \in JobSlots |-> NoJob]
  /\ workers = [w \in Workers |-> IdleWorker]
  /\ accepted = [i \in Items |-> 0]
  /\ hooks = [h \in Hooks |-> IdleHook]
  /\ recons = [r \in Recons |-> IdleRecon]
  /\ \E rows \in StatusVectors : probe = [rows |-> rows, site |-> "none"]

(* ------------------------- other notifications ----------------------- *)
TerminalKinds ==
  {<<"SUCCESSFUL_DISBURSEMENT", "SUCCESS", NoError>>,
   <<"FAILED_DISBURSEMENT", "FAILED", "Transaction failed">>}

\* notifications about an item whose reference carries the id of another batch than
\* the item's (payroll_items.payroll_id)
OtherBatchBodies ==
  {Body(k, Reference(UnknownPayroll, i), GatewayRef(i)) : k \in TerminalKinds, i \in Items}

\* notifications about an item that carry another transactionReference than the one
\* the batch response gave for it
OtherRefBodies ==
  {Body(k, Reference(ThePayroll, i), ForeignRef) : k \in TerminalKinds, i \in Items}

(* ------------------- the reference, character by character ------------ *)
\* a string is the sequence of its characters
DigitChars == <<"0", "1", "2", "3", "4", "5", "6", "7", "8", "9">>
PayrollPrefix == <<"P", "A", "Y", "R", "O", "L", "L">>

\* `${n}` of a whole number n >= 0: its decimal numeral
RECURSIVE NumeralOf(_)
NumeralOf(n) ==
  IF n < 10 THEN <<DigitChars[n + 1]>>
  ELSE NumeralOf(n \div 10) \o <<DigitChars[(n % 10) + 1]>>

\* a template that puts nothing between the two ids
ReferenceString_NoSeparator(payrollId, itemId) ==
  PayrollPrefix \o <<"_">> \o NumeralOf(payrollId) \o NumeralOf(itemId)

\* lines 47 and 70: `PAYROLL_${payrollId}_${item.id}`
ReferenceString(payrollId, itemId) ==
  PayrollPrefix \o <<"_">> \o NumeralOf(payrollId) \o <<"_">> \o NumeralOf(itemId)

\* str.split('_')
RECURSIVE Split(_)
Split(str) ==
  IF \A k \in DOMAIN str : str[k] # "_" THEN <<str>>
  ELSE LET k == Least({n \in DOMAIN str : str[n] = "_"})
       IN  <<SubSeq(str, 1, k - 1)>> \o Split(SubSeq(str, k + 1, Len(str)))

DigitValue(c) == CHOOSE d \in 0..9 : DigitChars[d + 1] = c

\* Number(str) of a string without spaces, sign, point or exponent: 0 of '', the
\* number a decimal numeral spells, NaN of anything else
RECURSIVE NumberOfString(_)
NumberOfString(str) ==
  IF str = <<>> THEN 0
  ELSE IF \E k \in DOMAIN str : \A d \in DOMAIN DigitChars : DigitChars[d] # str[k]
  THEN NaN
  ELSE NumberOfString(SubSeq(str, 1, Len(str) - 1)) * 10 + DigitValue(str[Len(str)])

\* webhook lines 509-519: [prefix, payrollIdStr, itemIdStr] = reference.split('_'),
\* then Number() of the two; Number(undefined) of a part that is missing is NaN
ParseReference(str) ==
  LET parts == Split(str)
      part(k) == IF k <= Len(parts) THEN NumberOfString(parts[k]) ELSE NaN
  IN  [prefix |-> parts[1], payrollId |-> part(2), itemId |-> part(3),
       ignored |-> parts[1] # PayrollPrefix \/ part(2) = NaN \/ part(3) = NaN]

\* the ids of rows: SERIAL keys
Ids == 1..MaxId

\* An invocation, a first one or a retry, builds the reference of the item probe names
\* for the transfer list (line 47) and again to find the item in the response (line 70).
BuildReference ==
  /\ probe.site \in {"ids", "references"}
  /\ Len(probe.built) < MaxLen
  /\ probe' = [probe EXCEPT
       !.site = "references",
       !.built = Append(@, [sent |-> ReferenceString(probe.payrollId, probe.itemId),
                            looked |-> ReferenceString(probe.payrollId, probe.itemId)])]
  /\ UNCHANGED <<client, employees, creator, items, payrolls, jobs, workers, accepted,
                 hooks, recons>>

\* the notification about the transfer arrives: lines 505-519 on the reference sent
ReceiveReference ==
  /\ probe.site = "references"
  /\ probe' = [probe EXCEPT
       !.site = "parsed",
       !.parsed = ParseReference(probe.built[Len(probe.built)].sent)]
  /\ UNCHANGED <<client, employees, creator, items, payrolls, jobs, workers, accepted,
                 hooks, recons>>

\* an item of a payroll, by their ids
InitReference ==
  /\ items = [i \in Items |-> [NewItem EXCEPT !.employee_id = i]]
  /\ payrolls = [p \in PayrollIds |-> NewPayroll]
  /\ employees = [e \in Employees |-> NewEmployee]
  /\ creator = IdleCreator
  /\ client = NewClient
  /\ jobs = [j \in JobSlots |-> NoJob]
  /\ workers = [w \in Workers |-> IdleWorker]
  /\ accepted = [i \in Items |-> 0]
  /\ hooks = [h \in Hooks |-> IdleHook]
  /\ recons = [r \in Recons |-> IdleRecon]
  /\ \E payrollId \in Ids, itemId \in Ids :
       probe = [site |-> "ids", payrollId |-> payrollId, itemId |-> itemId,
                built |-> <<>>,
                parsed |-> [prefix |-> <<>>, payrollId |-> NaN, itemId |-> NaN,
                            ignored |-> TRUE]]

(* ---------------------------- specifications -------------------------- *)
\* the notifications Monnify sends: a transfer that ended is one of a batch request
\* it accepted
FinalBodies ==
  {Body(k, Reference(ThePayroll, i), GatewayRef(i)) :
     k \in {<<"SUCCESSFUL_DISBURSEMENT", "SUCCESS", NoError>>,
            <<"FAILED_DISBURSEMENT", "FAILED", "Transaction failed">>},
     i \in {n \in Items : accepted[n] > 0}}

\* no job of the queue is waiting or running
QueueIdle == \A j \in JobSlots : jobs[j].state \notin {"waiting", "active"}

\* One queue worker (invocations one at a time, Bull retries included), with requests
\* to the webhook and to reconcile arriving between its store and gateway calls.
\* Processing is requested when no job is outstanding; the notifications are Monnify's.
Next ==
  \/ \E p \in PayrollIds : QueueIdle /\ ProcessPayroll(p)
  \/ WorkerStep("w1")
  \/ \E b \in FinalBodies : Webhook([signature |-> "valid", body |-> b])
  \/ \E p \in PayrollIds, answers \in [Items -> GatewayAnswers] : Reconcile(p, answers)

Spec == Init /\ [][Next]_vars

\* Every request handled from start to end before the next one.
NextSeq ==
  \/ \E p \in PayrollIds : ProcessPayroll(p)
  \/ \E j \in JobSlots : RunJob(j)
  \/ \E j \in JobSlots, taken \in BOOLEAN : RunJobFails(j, taken)
  \/ \E req \in Requests : Webhook(req)
  \/ \E p \in PayrollIds, answers \in [Items -> GatewayAnswers] : Reconcile(p, answers)

SpecSeq == Init /\ [][NextSeq]_vars

\* Notifications of any kind, signed or not, handled one at a time between
\* invocations that run from start to end.
NextWebhook ==
  \/ \E p \in PayrollIds : QueueIdle /\ ProcessPayroll(p)
  \/ \E j \in JobSlots : RunJob(j)
  \/ \E req \in Requests : Webhook(req)

SpecWebhook == Init /\ [][NextWebhook]_vars

\* Jobs run from start to end, failing at the gateway call or not, with Monnify's
\* notifications handled between them.
NextJobs ==
  \/ \E p \in PayrollIds : ProcessPayroll(p)
  \/ \E j \in JobSlots : RunJob(j)
  \/ \E j \in JobSlots, taken \in BOOLEAN : RunJobFails(j, taken)
  \/ \E b \in FinalBodies : Webhook([signature |-> "valid", body |-> b])

SpecJobs == Init /\ [][NextJobs]_vars

\* Requests to start processing, accepted or rejected, between jobs run from start
\* to end and Monnify's notifications.
NextStart ==
  \/ \E id \in PayrollIds \cup {UnknownPayroll} : StartProcessing(id)
  \/ \E j \in JobSlots : RunJob(j)
  \/ \E j \in JobSlots, taken \in BOOLEAN : RunJobFails(j, taken)
  \/ \E b \in FinalBodies : Webhook([signature |-> "valid", body |-> b])

SpecStart == Init /\ [][NextStart]_vars

\* Batch authorizations between jobs run from start to end and Monnify's notifications.
NextAuthorize ==
  \/ \E p \in PayrollIds : ProcessPayroll(p)
  \/ \E j \in JobSlots : RunJob(j)
  \/ \E b \in FinalBodies : Webhook([signature |-> "valid", body |-> b])
  \/ \E p \in PayrollIds \cup {Undefined}, details \in BatchDetails,
        answers \in [Items -> GatewayAnswers] : Authorize(p, details, answers)

SpecAuthorize == Init /\ [][NextAuthorize]_vars

\* Reconciliation sweeps between jobs run from start to end and Monnify's notifications.
NextSweep ==
  \/ \E p \in PayrollIds : ProcessPayroll(p)
  \/ \E j \in JobSlots : RunJob(j)
  \/ \E b \in FinalBodies : Webhook([signature |-> "valid", body |-> b])
  \/ \E p \in PayrollIds \cup {UnknownPayroll}, answers \in [Items -> GatewayAnswers] :
       ReconcileAnswered(p, answers)

SpecSweep == Init /\ [][NextSweep]_vars

\* Notifications of any kind, with a store call of the handler rejecting or not,
\* between jobs run from start to end.
NextReceiver ==
  \/ \E p \in PayrollIds : ProcessPayroll(p)
  \/ \E j \in JobSlots : RunJob(j)
  \/ \E b \in Bodies, fault \in Faults :
       WebhookAnswered([signature |-> "valid", body |-> b], fault)

SpecReceiver == Init /\ [][NextReceiver]_vars

\* Jobs queued at any time and run from start to end, with the gateway calls of each
\* observed, and Monnify's notifications between them.
NextInvoke ==
  \/ \E p \in PayrollIds : ProcessPayroll(p)
  \/ \E j \in JobSlots : RunJobAnswered(j)
  \/ \E b \in FinalBodies : Webhook([signature |-> "valid", body |-> b])

SpecInvoke == Init /\ [][NextInvoke]_vars

\* Every handler that writes an item, each run from start to end: jobs that return or
\* fail, notifications of any kind, sweeps and batch authorizations.
NextWriters ==
  \/ \E p \in PayrollIds : QueueIdle /\ ProcessPayroll(p)
  \/ \E j \in JobSlots : RunJob(j)
  \/ \E j \in JobSlots, taken \in BOOLEAN : RunJobFails(j, taken)
  \/ \E req \in Requests : Webhook(req)
  \/ \E p \in PayrollIds, answers \in [Items -> GatewayAnswers] : Reconcile(p, answers)
  \/ \E p \in PayrollIds, details \in BatchDetails,
        answers \in [Items -> GatewayAnswers] : Authorize(p, details, answers)

SpecWriters == Init /\ [][NextWriters]_vars

\* A payroll created while employees are added, deactivated and given another salary,
\* then processed by jobs run from start to end and finished by Monnify's notifications.
NextCreate ==
  \/ CreateStep
  \/ AddEmployee
  \/ \E e \in Employees, salary \in Salaries : SetSalary(e, salary)
  \/ \E e \in Employees : Deactivate(e)
  \/ \E p \in PayrollIds : QueueIdle /\ probe.site = "createPayroll" /\ ProcessPayroll(p)
  \/ \E j \in JobSlots : RunJob(j)
  \/ \E b \in FinalBodies : Webhook([signature |-> "valid", body |-> b])

SpecCreate == InitCreate /\ [][NextCreate]_vars

\* Salaries changed at any time after the payroll was created, between jobs that fail
\* at the gateway call and jobs that return, the transfer list of these observed.
NextAmounts ==
  \/ \E p \in PayrollIds : ProcessPayroll(p)
  \/ \E j \in JobSlots : RunJobAnswered(j)
  \/ \E j \in JobSlots, taken \in BOOLEAN : RunJobFails(j, taken)
  \/ \E e \in Employees, salary \in Salaries : SetSalary(e, salary)

SpecAmounts == Init /\ [][NextAmounts]_vars

\* One call of initiateBulkTransfer with any transfer list, on a client in any state
\* of its token, which expires as time passes.
NextClient ==
  \/ \E transfers \in TransferInputs, loginOk \in BOOLEAN, batchOk \in BOOLEAN :
       probe.site = "none" /\ InitiateBulkTransfer(transfers, loginOk, batchOk)
  \/ TokenExpires

SpecClient == InitClient /\ [][NextClient]_vars

\* Calls of the methods of the client, one after the other, as the hours pass.
NextToken ==
  \/ \E method \in Methods, argsOk \in BOOLEAN, wait \in {0, 1},
        loginOk1 \in BOOLEAN, loginOk2 \in BOOLEAN :
       ClientCall(method, argsOk, wait, loginOk1, loginOk2)
  \/ HourPasses

SpecToken == Init /\ [][NextToken]_vars

\* Notifications about the items, of any event type, with the id of the item's batch
\* or of another in the reference and with any transactionReference, between
\* invocations that run from start to end.
NextNotify ==
  \/ \E p \in PayrollIds : QueueIdle /\ ProcessPayroll(p)
  \/ \E j \in JobSlots : RunJob(j)
  \/ \E b \in ItemBodies \cup OtherBatchBodies \cup OtherRefBodies :
       Webhook([signature |-> "valid", body |-> b])

SpecNotify == Init /\ [][NextNotify]_vars

\* The reference of an item built by an invocation and its retries, then parsed by
\* the webhook handler.
NextReference ==
  \/ BuildReference
  \/ ReceiveReference

SpecReference == InitReference /\ [][NextReference]_vars

\* Two queue workers, each on a job of its own.
NextTwoWorkers ==
  \/ \E p \in PayrollIds : ProcessPayroll(p)
  \/ \E w \in Workers : WorkerStep(w)

SpecTwoWorkers == Init /\ [][NextTwoWorkers]_vars

HookStep(h) ==
  \/ \E b \in FinalBodies : H_Receive(h, [signature |-> "valid", body |-> b])
  \/ H_Write(h)
  \/ H_StatsRead(h)
  \/ H_StatsWrite(h)

\* A webhook handler and a reconciliation sweep whose store calls interleave,
\* after invocations that ran from start to end.
NextRace ==
  \/ \E p \in PayrollIds : ProcessPayroll(p)
  \/ \E j \in JobSlots : RunJob(j)
  \/ HookStep("h1")
  \/ \E r \in Recons :
       \/ \E p \in PayrollIds : R_Load(r, p)
       \/ \E answer \in GatewayAnswers : R_Item(r, answer)
       \/ R_Stats(r)

SpecRace == Init /\ [][NextRace]_vars

\* Two webhook handlers whose store calls interleave.
NextTwoHooks ==
  \/ \E p \in PayrollIds : ProcessPayroll(p)
  \/ \E j \in JobSlots : RunJob(j)
  \/ \E h \in Hooks : HookStep(h)

SpecTwoHooks == Init /\ [][NextTwoHooks]_vars

\* The aggregate recompute of each site on every vector of item statuses.
NextStats == \E site \in {"worker", "webhook", "controller"} : Recompute(site)

SpecStats == InitStats /\ [][NextStats]_vars


(* ----------------------------- properties ------------------------------ *)
Submitted(w) == workers[w].pc \in {"backfill", "statsRead", "statsWrite"}

\* C1: over invocations run one at a time, retries after a failure at any step
\* included, no item is in more than one batch request that Monnify accepted.
C1_AtMostOneAcceptedSubmission == \A i \in Items : accepted[i] <= 1

\* C2: when two invocations of the same batch run concurrently, no item is in the
\* gateway submissions of both.
C2_NoItemSubmittedByBoth ==
  \A i \in Items :
    ~(\A w \in Workers : Submitted(w) /\ i \in TransferItems(workers[w].transfers))

\* C3: a step of a processing invocation never changes an item that is COMPLETED
\* or FAILED when the step is taken.
C3_InvocationKeepsFinalItems ==
  [][\A i \in Items :
       (Terminal(items[i].status) /\ workers' # workers) => items'[i] = items[i]]_vars

\* C4: a reconciliation sweep leaves every item that is COMPLETED or FAILED as it
\* is (status, errorMessage, processedAt), whatever Monnify answers.
C4_ReconcileKeepsFinalItems ==
  [][\A p \in PayrollIds, answers \in [Items -> GatewayAnswers] :
       Reconcile(p, answers) =>
         \A i \in Items : Terminal(items[i].status) => items'[i] = items[i]]_vars

\* C5: of a notification and a sweep racing on an item that both read as not final,
\* the one whose write comes second writes nothing to the item.
C5_SecondWriterIsNoOp ==
  [][\A i \in Items :
       ( /\ Terminal(items[i].status)
         /\ \/ \E h \in Hooks : /\ hooks[h].pc = "write"
                                /\ hooks[h].itemId = i
                                /\ hooks'[h].pc = "statsRead"
            \/ \E r \in Recons : /\ recons[r].pc = "item"
                                 /\ Least(recons[r].todo) = i
                                 /\ ~Terminal(recons[r].rows[i].status)
                                 /\ recons'[r] # recons[r] )
       => items'[i] = items[i]]_vars

\* the events the handler classifies as COMPLETED or FAILED
TerminalEvent(req) ==
  \/ req.body.eventType \in {"SUCCESSFUL_DISBURSEMENT", "FAILED_DISBURSEMENT",
                             "REVERSED_DISBURSEMENT"}
  \/ req.body.eventData.status \in {"SUCCESS", "FAILED"}

\* C6: a terminal notification delivered twice in a row: after the first delivery
\* the item is COMPLETED or FAILED, with one more processedAt than before if it was
\* not final, and the second delivery changes no item row and no batch row.
C6_SecondDeliveryNoOp ==
  \A req \in Requests :
    (TerminalEvent(req) /\ WebhookItem(DB, req) # 0) =>
      LET i == WebhookItem(DB, req)
          d1 == WebhookRun(DB, req)
          d2 == WebhookRun(d1, req)
      IN  /\ d2 = d1
          /\ Terminal(d1.items[i].status)
          /\ d1.items[i].processed_at =
               IF Terminal(items[i].status) THEN items[i].processed_at
               ELSE items[i].processed_at + 1

\* a first delivery has finalized an item and the batch row counts it
C6_Witness ==
  \E i \in Items :
    /\ Terminal(items[i].status)
    /\ items[i].processed_at = 1
    /\ payrolls[ThePayroll].processed_count + payrolls[ThePayroll].failed_count >= 1

\* C7: a notification whose signature is missing or is not the HMAC of its body
\* changes no item and no batch.
C7_UnsignedChangesNothing ==
  [][\A req \in Requests :
       (~verifySignature(req) /\ Webhook(req)) => UNCHANGED <<items, payrolls>>]_vars

\* the items that were PENDING, or PROCESSING with no reference, in the rows loaded
EligibleWhenLoaded(w) ==
  {i \in DOMAIN workers[w].rows :
     \/ workers[w].rows[i].status = "pending"
     \/ /\ workers[w].rows[i].status = "processing"
        /\ workers[w].rows[i].transaction_reference = 0}

\* C8: the transfer list an invocation submits holds exactly the items that were
\* PENDING, or PROCESSING with a null reference, when it loaded them, and the
\* invocation writes no other item.
C8_SubmitsExactlyEligible ==
  \A w \in Workers :
    workers[w].pc # "idle" =>
      /\ workers[w].wrote \subseteq EligibleWhenLoaded(w)
      /\ TransferItems(workers[w].transfers) \subseteq EligibleWhenLoaded(w)
      /\ workers[w].pc \in {"submit", "backfill", "statsRead", "statsWrite"} =>
           TransferItems(workers[w].transfers) = EligibleWhenLoaded(w)

\* an invocation has submitted one item and written it back, having loaded the other
\* item COMPLETED, FAILED or already holding a reference
C8_Witness ==
  \E w \in Workers, i, j \in Items :
    /\ workers[w].pc = "statsRead"
    /\ i \in workers[w].wrote
    /\ i \in TransferItems(workers[w].transfers)
    /\ j \notin EligibleWhenLoaded(w)
    /\ workers[w].rows[j].status \in {"completed", "failed", "processing"}

\* no request is being handled and no job is waiting or running
Quiescent ==
  /\ QueueIdle
  /\ \A w \in Workers : workers[w].pc = "idle"
  /\ \A h \in Hooks : hooks[h].pc = "idle"
  /\ \A r \in Recons : recons[r].pc = "idle"

\* C9: when nothing is in flight and processing has started, the batch row is the
\* aggregate of the current item statuses.
C9_NoDrift ==
  \A p \in PayrollIds :
    (Quiescent /\ payrolls[p].status # PENDING) =>
      LET rows == PayrollItemModel_findByPayrollId(DB, p)
          completed == Cardinality({i \in DOMAIN rows : rows[i].status = COMPLETED})
          failed == Cardinality({i \in DOMAIN rows : rows[i].status = FAILED})
      IN  /\ payrolls[p].processed_count = completed
          /\ payrolls[p].failed_count = failed
          /\ payrolls[p].status =
               IF completed = Cardinality(DOMAIN rows) THEN COMPLETED
               ELSE IF failed = Cardinality(DOMAIN rows) THEN FAILED
               ELSE IF completed > 0 THEN PARTIALLY_COMPLETED
               ELSE PROCESSING

C11_BatchProcessedAtWrittenOnce ==
  [][\A p \in PayrollIds :
       payrolls[p].processed_at # NoTime =>
         payrolls'[p].processed_at = payrolls[p].processed_at]_vars

\* C12: an item's processedAt is set when the item becomes COMPLETED or FAILED, and
\* once set no later operation writes it again.
C12_ItemProcessedAtWrittenOnce ==
  [][\A i \in Items :
       /\ items[i].processed_at # NoTime =>
            items'[i].processed_at = items[i].processed_at
       /\ (~Terminal(items[i].status) /\ Terminal(items'[i].status)) =>
            items'[i].processed_at # NoTime]_vars

\* C13: when the gateway call of an invocation throws or is reported unsuccessful,
\* the job is handed back to the queue as thrown, every item of the transfer list
\* is left PROCESSING with no reference, and the transfer list the next invocation
\* builds from the rows left is the same list.
C13_FailedSubmissionIsRetried ==
  [][\A j \in JobSlots, taken \in BOOLEAN :
       RunJobFails(j, taken) =>
         LET p == jobs[j].payrollId
             list == TransfersOf(p, Payable(PayrollItemModel_findByPayrollId(DB, p)))
             left == MkDB(items', payrolls')
         IN  /\ \A i \in TransferItems(list) :
                  /\ items'[i].status = "processing"
                  /\ items'[i].transaction_reference = 0
             /\ TransfersOf(p, Payable(PayrollItemModel_findByPayrollId(left, p))) = list
             /\ jobs'[j].attemptsMade = jobs[j].attemptsMade + 1
             /\ jobs'[j].state \in {"waiting", "failed"}]_vars

\* an invocation has failed at the gateway call and its job waits for the retry, with
\* every item PROCESSING and without a reference
C13_Witness ==
  \E j \in JobSlots :
    /\ jobs[j].state = "waiting"
    /\ jobs[j].attemptsMade = 1
    /\ \A i \in Items : items[i].status = PROCESSING /\ items[i].transaction_reference = NoRef

\* C14: when a job has used up its attempts and left items PROCESSING without a
\* reference, and no other job of the batch is outstanding, a request to start
\* processing the batch is accepted.
C14_StuckItemsCanBeRetriggered ==
  \A p \in PayrollIds :
    ( /\ \E j \in JobSlots : jobs[j].state = "failed" /\ jobs[j].payrollId = p
      /\ \A j \in JobSlots : jobs[j].state \notin {"waiting", "active"}
      /\ \E i \in Items : /\ items[i].status = PROCESSING
                          /\ items[i].transaction_reference = NoRef )
    => ProcessPayrollCode(DB, p) = 200

\* the jobs in the queue
QueuedJobs(q) == {j \in JobSlots : q[j].state # "absent"}

\* C16: a request to start processing changes no batch row and no item row; on an
\* unknown id it answers 404 and on a PROCESSING or COMPLETED batch 400, adding no
\* job; on a batch in any other status it answers 200 and adds exactly one job, for
\* that batch, waiting for its first attempt.
C16_StartProcessingGuard ==
  [][\A id \in PayrollIds \cup {UnknownPayroll} :
       StartProcessing(id) =>
         /\ UNCHANGED <<items, payrolls>>
         /\ IF id \notin PayrollIds
            THEN probe'.code = 404 /\ jobs' = jobs
            ELSE IF payrolls[id].status \in {"processing", "completed"}
            THEN probe'.code = 400 /\ jobs' = jobs
            ELSE /\ probe'.code = 200
                 /\ \E j \in JobSlots \ QueuedJobs(jobs) :
                      /\ QueuedJobs(jobs') = QueuedJobs(jobs) \cup {j}
                      /\ jobs'[j] = [state |-> "waiting", payrollId |-> id,
                                     attemptsMade |-> 0]
                      /\ \A k \in JobSlots \ {j} : jobs'[k] = jobs[k]]_vars

\* a request to start processing was rejected because the batch is PROCESSING with an
\* item submitted and waiting for its outcome
C16_Witness ==
  /\ probe.site = "processPayroll"
  /\ probe.code = 400
  /\ payrolls[ThePayroll].status = PROCESSING
  /\ \E i \in Items : accepted[i] > 0 /\ items[i].status = PROCESSING

\* C15: a job is attempted at most 3 times: an attempt that throws is counted, the
\* job waits for another attempt while fewer than 3 have thrown and is failed at the
\* third; a failed job stays in the queue as it is for ever; a job whose attempt
\* returns is removed from the queue.
C15_AtMostThreeAttempts ==
  [][\A j \in JobSlots :
       /\ jobs'[j].state \in {"waiting", "active"} => jobs'[j].attemptsMade < 3
       /\ jobs'[j].state = "failed" => jobs'[j].attemptsMade = 3
       /\ jobs[j].state = "failed" => jobs'[j] = jobs[j]
       /\ (jobs[j].state \in {"waiting", "active"} /\ jobs'[j] # jobs[j]) =>
            \/ jobs[j].state = "waiting" /\ jobs'[j] = [jobs[j] EXCEPT !.state = "active"]
            \/ jobs'[j].state = "absent"
            \/ /\ jobs'[j].attemptsMade = jobs[j].attemptsMade + 1
               /\ jobs'[j].payrollId = jobs[j].payrollId
               /\ jobs'[j].state = IF jobs[j].attemptsMade = 2 THEN "failed" ELSE "waiting"
       /\ (jobs[j].state = "absent" /\ jobs'[j] # jobs[j]) =>
            jobs'[j].state = "waiting" /\ jobs'[j].attemptsMade = 0]_vars

\* a job has failed at its third attempt
C15_Witness ==
  \E j \in JobSlots : jobs[j].state = "failed" /\ jobs[j].attemptsMade = 3

\* C17: an authorization called with a batch id writes Monnify's reference to every
\* item that has none and is listed in the batch details, and then looks up every
\* item that holds a reference after that, the items just written included: such an
\* item that is not COMPLETED or FAILED is COMPLETED after the call when Monnify
\* answers PAID and FAILED when it answers FAILED.
C17_AuthorizeReconcilesBackfilled ==
  [][\A p \in PayrollIds, details \in BatchDetails, answers \in [Items -> GatewayAnswers] :
       (details.ok /\ Authorize(p, details, answers)) =>
         \A i \in Items :
           LET held == \/ items[i].transaction_reference # NoRef
                       \/ i \in details.listed
           IN  /\ (i \in details.listed /\ items[i].transaction_reference = NoRef) =>
                    items'[i].transaction_reference = GatewayRef(i)
               /\ (held /\ ~Terminal(items[i].status)) =>
                    /\ answers[i].paymentStatus = "PAID" => items'[i].status = COMPLETED
                    /\ answers[i].paymentStatus = "FAILED" => items'[i].status = FAILED]_vars

\* C18: a reconciliation sweep leaves every item that is COMPLETED or FAILED either
\* COMPLETED or FAILED, whatever Monnify answers for its reference and also when the
\* lookup fails.
C18_ReconcileNeverReopens ==
  [][\A p \in PayrollIds \cup {UnknownPayroll}, answers \in [Items -> GatewayAnswers] :
       ReconcileAnswered(p, answers) =>
         \A i \in Items :
           items[i].status \in {"completed", "failed"} =>
             items'[i].status \in {"completed", "failed"}]_vars

\* a sweep has run over a COMPLETED or FAILED item that holds a reference
C18_Witness ==
  /\ probe.site = "reconcile"
  /\ probe.reply.status = 500
  /\ \A i \in Items : items[i].transaction_reference # NoRef
  /\ \E i \in Items : Terminal(items[i].status) /\ items[i].processed_at = 2

\* C19: in a sweep of a batch with at least one item that holds a reference, a
\* lookup that fails is counted in errors and every other item that holds a
\* reference is updated as its answer asks; total is the number of items that hold
\* a reference, reconciled the number of items the sweep wrote, and
\* reconciled + errors <= total.
C19_SweepSurvivesLookupFailure ==
  [][\A p \in PayrollIds, answers \in [Items -> GatewayAnswers] :
       LET held == {i \in Items : items[i].transaction_reference # NoRef}
           threw == {i \in held : answers[i].paymentStatus = "THROWS"}
       IN  (held # {} /\ ReconcileAnswered(p, answers)) =>
             /\ probe'.reply.status = 200
             /\ probe'.reply.total = Cardinality(held)
             /\ probe'.reply.errors = Cardinality(threw)
             /\ probe'.reply.reconciled = Cardinality({i \in Items : items'[i] # items[i]})
             /\ probe'.reply.reconciled + probe'.reply.errors <= probe'.reply.total
             /\ \A i \in threw : items'[i] = items[i]
             /\ \A i \in held \ threw :
                  /\ (answers[i].paymentStatus = "PAID" /\ items[i].status # COMPLETED)
                       => items'[i].status = COMPLETED
                  /\ (answers[i].paymentStatus = "FAILED" /\ items[i].status # FAILED)
                       => items'[i].status = FAILED]_vars

\* C20: the webhook handler answers 200 on every way through it: a missing or
\* malformed reference, an unknown item, an item already final, an event type it does
\* not handle, an update, and an exception of a store call.
C20_WebhookAlwaysAcknowledges ==
  probe.site = "webhook" =>
    /\ probe.path \in {"missing reference", "malformed reference", "unknown item",
                       "already final", "unhandled event", "updated", "exception"}
    /\ probe.reply.status = 200

\* the handler has answered an event whose store call threw after the item was written
C20_Witness ==
  /\ probe.site = "webhook"
  /\ probe.path = "exception"
  /\ \E i \in Items :
       /\ Terminal(items[i].status)
       /\ payrolls[ThePayroll].processed_count + payrolls[ThePayroll].failed_count = 0

\* C21: an invocation on a batch with no item that is PENDING, or PROCESSING without a
\* reference, makes no gateway call and changes no item row and no batch row.
C21_NothingEligibleIsNoOp ==
  [][\A j \in JobSlots :
       ( /\ RunJobAnswered(j)
         /\ \A i \in Items :
              /\ items[i].status # "pending"
              /\ ~(items[i].status = "processing" /\ items[i].transaction_reference = 0) )
       => /\ UNCHANGED <<items, payrolls, accepted>>
          /\ probe'.calls = 0]_vars

\* an invocation has returned without a gateway call on a batch whose items are all
\* COMPLETED
C21_Witness ==
  /\ probe.site = "processBulkPayroll"
  /\ probe.calls = 0
  /\ \A i \in Items : items[i].status = COMPLETED
  /\ payrolls[ThePayroll].status = COMPLETED

\* C22: a notification whose reference is missing, has another prefix than PAYROLL,
\* carries a batch id or an item id that is not a number, or names an item id that no
\* item has, changes no item row and no batch row.
C22_UnparsableChangesNothing ==
  [][\A req \in Requests :
       LET ref == req.body.eventData.reference
           numeral(part) == part \notin {NaN, Empty}
       IN  ( /\ Webhook(req)
             /\ \/ ref = NoReference
                \/ ref[1] # "PAYROLL"
                \/ ~numeral(ref[2])
                \/ ~numeral(ref[3])
                \/ ref[3] \notin Items )
           => UNCHANGED <<items, payrolls>>]_vars

\* C23: an item that holds a reference is PROCESSING, COMPLETED or FAILED, before and
\* after every step, and no step takes an item that is not PENDING to PENDING.
C23_ReferenceImpliesSubmitted ==
  [][\A i \in Items :
       /\ items[i].transaction_reference # 0 =>
            items[i].status \in {"processing", "completed", "failed"}
       /\ items'[i].transaction_reference # 0 =>
            items'[i].status \in {"processing", "completed", "failed"}
       /\ items[i].status # "pending" => items'[i].status # "pending"]_vars

\* the three statuses are held by items with a reference: one item was sent again after
\* its reference was written, the other is final
C23_Witness ==
  \E i, j \in Items :
    /\ items[i].transaction_reference # NoRef
    /\ items[i].status = PROCESSING
    /\ accepted[i] = 2
    /\ items[j].transaction_reference # NoRef
    /\ Terminal(items[j].status)

\* C24: every item that has an errorMessage is FAILED.
C24_ErrorMessageOnlyOnFailed ==
  \A i \in Items : items[i].error_message # "" => items[i].status = "failed"

\* C25: every step that makes an item FAILED leaves it with an errorMessage.
C25_FailedCarriesErrorMessage ==
  [][\A i \in Items :
       (items[i].status # "failed" /\ items'[i].status = "failed") =>
         items'[i].error_message # ""]_vars

\* the sum of the amounts of the item rows `rows`
RECURSIVE SumAmounts(_)
SumAmounts(rows) ==
  IF rows = <<>> THEN 0 ELSE Head(rows).amount + SumAmounts(Tail(rows))

\* C28: when createPayroll returns, the batch is PENDING with zero counters, every
\* item is PENDING with no reference, no two items are of one employee, every item
\* is of a selected employee, itemCount is the number of items and totalAmount the
\* sum of their amounts, whatever happened to the employees while it ran.
C28_CreatedBatchIsConsistent ==
  [][C_Return =>
       LET p == creator.payroll
       IN  /\ payrolls'[p].status = "pending"
           /\ payrolls'[p].processed_count = 0
           /\ payrolls'[p].failed_count = 0
           /\ \A i \in DOMAIN items' :
                /\ items'[i].status = "pending"
                /\ items'[i].transaction_reference = 0
                /\ creator.ids # {} => items'[i].employee_id \in creator.ids
           /\ \A i, j \in DOMAIN items' :
                items'[i].employee_id = items'[j].employee_id => i = j
           /\ payrolls'[p].total_employees = Len(items')
           /\ payrolls'[p].total_amount = SumAmounts(items')]_vars

\* C26: for every batch, completedCount + failedCount is at most the itemCount stored
\* at creation.
C26_CountersWithinItemCount ==
  \A p \in DOMAIN payrolls :
    payrolls[p].processed_count + payrolls[p].failed_count <= payrolls[p].total_employees

\* C27: while a batch is in no terminal aggregate state (it is PENDING or PROCESSING),
\* no write of the batch row lowers completedCount or failedCount.
C27_CountersNeverDecrease ==
  [][\A p \in DOMAIN payrolls :
       payrolls[p].status \in {"pending", "processing"} =>
         /\ payrolls'[p].processed_count >= payrolls[p].processed_count
         /\ payrolls'[p].failed_count >= payrolls[p].failed_count]_vars

\* C29: no step changes the amount of an item, a change of the employee's salary
\* included, and the amount an invocation submits for an item, in a first submission
\* or in a retry, is the amount of the item row.
C29_SubmitsSnapshottedAmount ==
  [][/\ \A i \in DOMAIN items : items'[i].amount = items[i].amount
     /\ \A j \in JobSlots :
          RunJobAnswered(j) =>
            \A i \in DOMAIN probe'.sent : probe'.sent[i] = items[i].amount]_vars

\* an item was submitted again, after a failed attempt that Monnify had taken, with
\* its amount, its employee having another salary by then
C29_Witness ==
  /\ probe.site = "processBulkPayroll"
  /\ \E i \in DOMAIN probe.sent :
       /\ accepted[i] = 2
       /\ employees[items[i].employee_id].salary # items[i].amount
       /\ probe.sent[i] = items[i].amount

\* C30: a call of initiateBulkTransfer, on a client configured with a contract code,
\* with a list that holds a transfer with an amount that is not positive, an empty
\* account number or an empty bank code sends no request, neither the login nor the
\* batch request, and fails with an error that names the reference of such a transfer
\* (or of one with an empty recipient name, which is rejected in the same way).
C30_ValidatesBeforeAnyRequest ==
  (probe.site = "initiateBulkTransfer" /\ client.contractCode) =>
    LET list == probe.transfers
        offending == {k \in DOMAIN list : \/ list[k].amount <= 0
                                          \/ list[k].recipientAccountNumber = ""
                                          \/ list[k].recipientBankCode = ""}
    IN  offending # {} =>
          /\ probe.requests = <<>>
          /\ \E k \in offending \cup {n \in DOMAIN list : list[n].recipientName = ""} :
               probe.error.reference = <<"PAYROLL", ThePayroll, k>>

\* C31: no request leaves the client with a Bearer token whose stored expiry the clock
\* has reached, and none with a token older than the 24 hours it lasts, the expiry
\* being 23 hours after the login; a call on a client with no token, or with one whose
\* expiry has been reached, sends the login request first; and a call whose login
\* fails sends no other request and fails.
C31_NoRequestWithStaleToken ==
  probe.site = "client" =>
    LET api == {k \in DOMAIN probe.requests :
                  probe.requests[k].url # "/api/v1/auth/login"}
    IN  /\ TokenMarginHours = 23
        /\ TokenMarginHours < 24
        /\ \A k \in api :
             probe.requests[k].bearer =>
               /\ ~probe.requests[k].expired
               /\ probe.requests[k].age < 23
               /\ probe.requests[k].age < 24
        /\ (~probe.before.accessToken \/ probe.before.expired) =>
             /\ probe.requests # <<>>
             /\ probe.requests[1].url = "/api/v1/auth/login"
        /\ probe.error.message = "Failed to authenticate with Monnify" => api = {}

\* a call on a client whose token had reached its expiry logged in again and sent its
\* request with the new token
C31_Witness ==
  /\ probe.site = "client"
  /\ probe.before.accessToken
  /\ probe.before.age >= TokenMarginHours
  /\ Len(probe.requests) = 2
  /\ probe.requests[2].bearer
  /\ probe.requests[2].age = 0

\* C32: the reference of an item is the same string, PAYROLL_{batchId}_{itemId}, each
\* time an invocation or a retry builds it; no item with another id has that string as
\* its reference, in any batch; and the webhook handler parses the string back to the
\* batch id and the item id it was built from.
C32_ReferenceRoundTrip ==
  /\ probe.site \in {"references", "parsed"} =>
       /\ \A k \in DOMAIN probe.built :
            /\ probe.built[k].sent = probe.built[1].sent
            /\ probe.built[k].looked = probe.built[1].sent
       /\ \A p \in Ids, i \in Ids :
            i # probe.itemId => ReferenceString(p, i) # probe.built[1].sent
       /\ \A p \in Ids :
            p # probe.payrollId =>
              ReferenceString(p, probe.itemId) # probe.built[1].sent
  /\ probe.site = "parsed" =>
       /\ ~probe.parsed.ignored
       /\ probe.parsed.payrollId = probe.payrollId
       /\ probe.parsed.itemId = probe.itemId

\* the reference PAYROLL_1_11, built three times, was parsed back to batch 1, item 11
C32_Witness ==
  /\ probe.site = "parsed"
  /\ Len(probe.built) = 3
  /\ probe.built[3].sent = <<"P", "A", "Y", "R", "O", "L", "L", "_", "1", "_", "1", "1">>
  /\ probe.parsed.payrollId = 1
  /\ probe.parsed.itemId = 11

\* C33: an authorization during which no lookup reports PAID or FAILED, so that its
\* backfill of references is all it writes to items, leaves the status of every item
\* that is COMPLETED or FAILED as it is, also when the item holds no reference.
C33_BackfillKeepsFinalStatus ==
  [][\A p \in PayrollIds, details \in BatchDetails, answers \in [Items -> GatewayAnswers] :
       ( /\ Authorize(p, details, answers)
         /\ \A i \in Items : answers[i].paymentStatus \notin {"PAID", "FAILED"} )
       => \A i \in Items :
            items[i].status \in {"completed", "failed"} =>
              items'[i].status = items[i].status]_vars

\* C34: a request to start processing a batch that has a job in the queue which no
\* worker has picked up yet adds no second job for the batch.
C34_NoSecondJobBeforePickup ==
  [][\A id \in PayrollIds :
       ( /\ StartProcessing(id)
         /\ \E j \in JobSlots : /\ jobs[j].state = "waiting"
                                 /\ jobs[j].payrollId = id
                                 /\ jobs[j].attemptsMade = 0 )
       => jobs' = jobs]_vars

\* C35: when the webhook handler has changed an item, the row of the batch the item
\* belongs to holds, once the handler has returned, the aggregate of the item statuses
\* as they are then: its counters are the numbers of COMPLETED and FAILED items and
\* its status follows from them, whatever batch id the reference carried.
C35_RecomputesOwningBatch ==
  [][\A b \in ItemBodies \cup OtherBatchBodies \cup OtherRefBodies :
       (Webhook([signature |-> "valid", body |-> b]) /\ items' # items) =>
         LET completed == Cardinality({i \in Items : items'[i].status = "completed"})
             failed == Cardinality({i \in Items : items'[i].status = "failed"})
         IN  /\ payrolls'[ThePayroll].processed_count = completed
             /\ payrolls'[ThePayroll].failed_count = failed
             /\ payrolls'[ThePayroll].status =
                  IF completed = NumItems THEN "completed"
                  ELSE IF failed = NumItems THEN "failed"
                  ELSE IF completed > 0 THEN "partially_completed"
                  ELSE "processing"]_vars

\* C36: a notification about an item that is not COMPLETED or FAILED, with an event
\* type and a status the handler does not know, changes no item row and no batch row.
C36_UnknownEventChangesNothing ==
  [][\A req \in Requests :
       LET ref == req.body.eventData.reference
       IN  ( /\ Webhook(req)
             /\ ref \in ItemReferences
             /\ items[ref[3]].status \notin {"completed", "failed"}
             /\ req.body.eventType \notin {"SUCCESSFUL_DISBURSEMENT", "FAILED_DISBURSEMENT",
                                           "REVERSED_DISBURSEMENT"}
             /\ req.body.eventData.status \notin {"SUCCESS", "FAILED"} )
           => UNCHANGED <<items, payrolls>>]_vars

\* C37: no step changes the reference of an item that holds one.
C37_ReferenceSetOnce ==
  [][\A i \in Items :
       items[i].transaction_reference # 0 =>
         items'[i].transaction_reference = items[i].transaction_reference]_vars

C39_SweepChangesOnlyAnsweredItems ==
  [][\A p \in PayrollIds \cup {UnknownPayroll}, answers \in [Items -> GatewayAnswers] :
       ReconcileAnswered(p, answers) =>
         \A i \in Items :
           items'[i] # items[i] =>
             /\ items[i].transaction_reference # 0
             /\ answers[i].paymentStatus \in {"PAID", "FAILED"}]_vars

\* a sweep has completed the item that holds a reference, while the batch row still
\* counts no completed item, and has left the item without a reference PROCESSING
C39_Witness ==
  /\ probe.site = "reconcile"
  /\ payrolls[ThePayroll].processed_count = 0
  /\ \E i, k \in Items :
       /\ items[i].status = COMPLETED /\ items[i].transaction_reference # NoRef
       /\ items[k].status = PROCESSING /\ items[k].transaction_reference = NoRef

\* C40: when every item of a batch holds a transaction reference and Monnify answers
\* PAID or FAILED for each, one reconciliation sweep leaves every item COMPLETED or
\* FAILED and the batch COMPLETED, FAILED or PARTIALLY_COMPLETED with processed_count
\* and failed_count equal to the numbers of COMPLETED and FAILED items.
C40_SweepClosesTheGap ==
  [][\A p \in PayrollIds, answers \in [Items -> GatewayAnswers] :
       (/\ ReconcileAnswered(p, answers)
        /\ \A i \in Items :
             /\ items[i].transaction_reference # 0
             /\ answers[i].paymentStatus \in {"PAID", "FAILED"}) =>
         /\ \A i \in Items : items'[i].status \in {"completed", "failed"}
         /\ payrolls'[p].status \in {"completed", "failed", "partially_completed"}
         /\ payrolls'[p].processed_count =
              Cardinality({i \in Items : items'[i].status = "completed"})
         /\ payrolls'[p].failed_count =
              Cardinality({i \in Items : items'[i].status = "failed"})]_vars

=============================================================================
